---- MODULE Spec2Model ----
(***************************************************************************)
(* idbdownsampler: the downsampling orchestrator (db package + App).       *)
(*                                                                         *)
(* Spec    one workOn worker of App (part_003) driving Influx.Downsample   *)
(*         (part_001) next to the resource monitor, over short bucket      *)
(*         chains and several cycles, with the goroutine of Run that       *)
(*         started it and the end of the process.                          *)
(* SpecDs  the first cycle of such a worker over one target whose          *)
(*         retention holds many chunks, for the configured AggrCnt values. *)
(* SpecDsFair  SpecDs with weak fairness of the walker's own steps.        *)
(* SpecDsLive  SpecDs with weak fairness of every step of Downsample.      *)
(* SpecDsAny  the first cycle for a known and for an unknown collection.   *)
(* SpecFn  the pure parts fed by the cardinality probe, on drawn inputs:   *)
(*         Influx.GetDsInstances and the chunk switch of Downsample.       *)
(* SpecRun the start of App.Run over the configured collections:           *)
(*         collectionBuckets, GetDsInstances, one worker per group.        *)
(* SpecMono  workOn of the monolithic App (src/app/app.go), its downsample *)
(*         taken as one call.                                              *)
(* SpecDsLog  SpecDs with the history of the DB calls of each Downsample   *)
(*         call kept.                                                      *)
(* SpecScen  the first cycle over the telegraf chain with the TSDB content *)
(*         of a worked scenario.                                           *)
(* SpecLts, SpecChunk, SpecProg  Influx.LastTS, the chunk width and the    *)
(*         program text of Downsample, on drawn inputs.                    *)
(* SpecBw  Influx.StoreBwUsage called repeatedly for one instance.         *)
(* SpecWait  App.Run with all the goroutines it starts, each taken from    *)
(*         its re-enumerations and the return of its workOn, to the end of *)
(*         the process.                                                    *)
(* SpecMonoLts  bucket.lastTS of app.go and the cursor start that          *)
(*         downsample takes from it, on drawn inputs.                      *)
(*                                                                         *)
(* Time is an integer count of instants, Second of them per second, so     *)
(* that an instant need not be a whole second.  The TSDB is an external    *)
(* collaborator: every query answer is a nondeterministic choice among the *)
(* answers the query text allows (rows inside its range, no row, error).   *)
(* The gate DbHasResources is a plain bool shared without synchronisation; *)
(* reads and writes are modelled as atomic steps interleaved in any order. *)
(***************************************************************************)
EXTENDS Integers, Sequences, FiniteSets, TLC

(* ---------------- bounds of the model ---------------- *)
\* resolution of time: instants per second
Second == 2
\* DB round trip of the source-frontier query: 0 or MaxLatency instants
MaxLatency == 5
\* config values of AggrCnt explored besides the default: 1..MaxAggrCnt
MaxAggrCnt == 1
\* gate polls (30 s sleeps) explored within one cycle of workOn
MaxPolls == 1
\* cycles of workOn explored
MaxCycles == 2
\* configured collections explored: 1..MaxCols names
MaxCols == 2
\* StoreBwUsage calls made for the instance
MaxRuns == 3

(* ---------------- program constants ---------------- *)
DefaultAggrCnt == 8
DefaultMemLimit == 40
DefaultCardMedium == 50
DefaultCardHevy == 1000
\* time.Sleep(30 * time.Second) in both gate loops
GateSleep == 30 * Second
\* variant of ErrSleep: the pause of the gate loops
ErrSleepAsGate == GateSleep
\* time.Sleep(10 * time.Second) after a failed Downsample
ErrSleep == 10 * Second
\* 3 * time.Hour, the minimum cycle length
MinCycle == 3 * 3600 * Second

Nil == "nil"
Groups == {"light", "medium", "hevy"}
Instances == {"r1", "r2"}
\* collections LastTS and the program switch of Downsample know
KnownCols == {"ifstats", "iftraffic", "gengauge", "gencounter", "icingachk"}

(* ---------------- inputs ---------------- *)
\* tier chains handed to workOn: head first, every later bucket fed by the one before it
\* (From is the index of the source bucket in the chain, 0 for none)
\* (AInterv and RPeriod are given in seconds)
Bucket(name, aInterv, rPeriod, first, from) ==
    [Name |-> name, AInterv |-> aInterv * Second, RPeriod |-> rPeriod * Second,
     First |-> first, From |-> from]
\* short chains, walked over several cycles (Spec)
Chains ==
    {<<Bucket("H", 1, 1, TRUE, 0), Bucket("T1", 2, 3, FALSE, 1)>>,
     <<Bucket("H", 1, 1, TRUE, 0), Bucket("T1", 2, 3, FALSE, 1), Bucket("T2", 4, 6, FALSE, 2)>>}
\* one target with a long retention, walked once (SpecDs)
ChainsDs ==
    {<<Bucket("H", 1, 3, TRUE, 0), Bucket("T1", 2, 23, FALSE, 1)>>,
     <<Bucket("H", 2, 3, TRUE, 0), Bucket("T1", 3, 23, FALSE, 1)>>}

\* cardinalities the probe may answer with
CardVals == {0, 50, 500, 5000}
\* instance enumerations (unique values, any order)
InstanceLists == {<<>>, <<"r1">>, <<"r1", "r2">>, <<"r2", "r1">>}
AggrCnts == (1..MaxAggrCnt) \cup {DefaultAggrCnt}

VARIABLES
    clock,          \* wall clock, time.Now()
    AggrCnt, DsMemLimit, CardMedium, CardHevy, DbHasResources,   \* db.Influx fields
    monTasks, monMem,   \* what the last monitor tick read ("none": not read)
    col, cg, buckets, instances,   \* workOn parameters
    scen,           \* the TSDB: the content fixed by a scenario, or any content (NoScen)
    wPc, firstRun, bi, ii, ts, polls, cycle, wErr,   \* workOn locals
    dPc, now, ft, t, fTs, tTs, card, c, q, dErr,   \* Downsample locals
    nExec, lastWin, gateUp,   \* per Downsample call: QueryRaw calls, last window, gate seen true
    shIn, shOut,    \* GetDsInstances applied to drawn inputs (SpecFn)
    calls,          \* history: the Downsample calls <<bucket index, instance>> started in this cycle
    lastErr,        \* history: the last Downsample call of this cycle returned an error
    enumCycle, enumList,   \* history: cycle and result of the latest re-enumeration
    proc, fatalBy,  \* the process: "running" or "fatal", and which PrintFatal ended it
    wg,             \* Run: the counter of the WaitGroup
    startTS,        \* App.startTS
    dsCollections,  \* App.dsCollections, the configured collection names
    rPc, rIdx, rBuckets,   \* Run: position, index in the range over dsCollections, buckets
    workers,        \* Run: the workOn goroutines started, as [c, cg]
    ended,          \* Run: the goroutines whose workOn has returned
    wList,          \* the instance list of each goroutine, when all of them are followed
    lastEnum,       \* history: the caller and the result of the latest GetDsInstances call
    bwPoints,       \* the TSDB: the _time of the bwutil points of the instance in Influx.Bwb
    bwPc, bwStart, bwProbe, bwRet,   \* StoreBwUsage: position, time of the call, the probe's result, the result
    bwWrites, bwRuns,   \* QueryRaw calls of this StoreBwUsage call; the calls made so far
    bwProd,         \* history: the latest call whose program stored a point
    watch,          \* whether the histories dbLog (SpecDsLog) and lastEnum (SpecWait) are kept
    dbLog           \* history: the DB calls of this Downsample call, with their outcome

vars == <<clock, AggrCnt, DsMemLimit, CardMedium, CardHevy, DbHasResources,
          monTasks, monMem, col, cg, buckets, instances, scen,
          wPc, firstRun, bi, ii, ts, polls, cycle, wErr,
          dPc, now, ft, t, fTs, tTs, card, c, q, dErr, nExec, lastWin, gateUp,
          shIn, shOut, calls, lastErr, enumCycle, enumList,
          proc, fatalBy, wg, startTS, dsCollections, rPc, rIdx, rBuckets, workers, ended, wList, lastEnum,
          bwPoints, bwPc, bwStart, bwProbe, bwRet, bwWrites, bwRuns, bwProd, watch, dbLog>>

confVars == <<AggrCnt, DsMemLimit, CardMedium, CardHevy, col, cg, buckets, scen, watch>>
monVars == <<DbHasResources, monTasks, monMem>>
workVars == <<instances, wPc, firstRun, bi, ii, ts, polls, cycle, wErr>>
bwVars == <<bwPoints, bwPc, bwStart, bwProbe, bwRet, bwWrites, bwRuns, bwProd>>
dsVars == <<dPc, now, ft, t, fTs, tTs, card, c, q, dErr, nExec, lastWin, dbLog>>
fnVars == <<shIn, shOut>>
histVars == <<calls, lastErr, enumCycle, enumList>>
startVars == <<dsCollections, rPc, rIdx, rBuckets, workers, ended, wList, lastEnum>>
runVars == <<proc, fatalBy, wg, startTS, startVars>>

(* ---------------- DB gateway: what a call returns for a given answer ---------------- *)
\* an answer of the TSDB to one query: an error, no row, or a row with value v
Ans(kind, v) == [kind |-> kind, v |-> v]
ErrAns == Ans("err", 0)
NoRow == Ans("norow", 0)
Rows(S) == {Ans("row", x) : x \in S}
NotRead == Ans("none", 0)
\* a row with value x, then an error of the result stream
RowErrs(S) == {Ans("rowerr", x) : x \in S}

\* variant of CardinalityOf: a failed query answers with a cardinality of the highest rank
CardinalityOfFailHigh(ans) ==
    IF ans.kind = "row" THEN [c |-> ans.v, err |-> Nil]
    ELSE IF ans.kind = "norow" THEN [c |-> 0, err |-> Nil]
    ELSE [c |-> 1000000, err |-> "err"]

\* Influx.Cardinality: the value of the answer row; c stays 0 when the query fails or is empty;
\* "return c, result.Err()" gives the value of a row read before the stream failed
CardinalityOf(ans) ==
    IF ans.kind = "row" THEN [c |-> ans.v, err |-> Nil]
    ELSE IF ans.kind = "rowerr" THEN [c |-> ans.v, err |-> "err"]
    ELSE [c |-> 0, err |-> IF ans.kind = "err" THEN "err" ELSE Nil]

\* variant of GroupOf: the thresholds themselves fall into the lower group
GroupOfInclusive(crd, cm, ch) ==
    IF crd <= cm THEN "light" ELSE IF crd <= ch THEN "medium" ELSE "hevy"

\* group of one instance, the switch of GetDsInstances
GroupOf(crd, cm, ch) ==
    IF crd < cm THEN "light" ELSE IF crd < ch THEN "medium" ELSE "hevy"

\* variant of GroupList: every case of the switch that holds takes the instance
RECURSIVE GroupListEveryCase(_, _, _, _, _)
GroupListEveryCase(list, probe, cm, ch, g) ==
    IF list = <<>> THEN <<>>
    ELSE LET v == Head(list)
             crd == CardinalityOf(probe[v]).c
             rest == GroupListEveryCase(Tail(list), probe, cm, ch, g)
         IN IF \/ (g = "light" /\ crd < cm)
               \/ (g = "medium" /\ crd < ch)
               \/ (g = "hevy" /\ crd >= ch)
            THEN <<v>> \o rest ELSE rest

\* Influx.GetDsInstances after a successful GetAllInstances: list is the enumeration,
\* probe[v] the answer of the cardinality query for v. A group is in the map only
\* once an instance was appended to it; cInst[g] of an absent group is the nil slice.
RECURSIVE GroupList(_, _, _, _, _)
GroupList(list, probe, cm, ch, g) ==
    IF list = <<>> THEN <<>>
    ELSE LET v == Head(list)
             rest == GroupList(Tail(list), probe, cm, ch, g)
         IN IF GroupOf(CardinalityOf(probe[v]).c, cm, ch) = g THEN <<v>> \o rest ELSE rest

GetDsInstances(list, probe, cm, ch) ==
    [g \in Groups |-> GroupList(list, probe, cm, ch, g)]

\* no scenario: the TSDB may hold anything and any query may fail
NoScen == [on |-> FALSE]

\* time.Time.Unix(): the whole seconds of an instant
Unix(x) == x - (x % Second)

\* instants of the rows a "range(start: lo) |> last()" query evaluated at instant hi can answer with
RowTimes(lo, hi) == lo..(hi - 1)

\* Influx.LastTS(b, inst, cl) called at instant at: the range starts at the whole second
\* of now - RPeriod, the RPeriod of the source bucket when there is one
LastTSStart(b, chain, at) ==
    Unix(IF b.From # 0 THEN at - chain[b.From].RPeriod ELSE at - b.RPeriod)

LastTSAnswers(b, chain, at) ==
    IF scen.on
    THEN IF b.Name \in DOMAIN scen.last
            /\ scen.last[b.Name] \in RowTimes(LastTSStart(b, chain, at), at)
         THEN {Ans("row", scen.last[b.Name])}
         ELSE {NoRow}
    ELSE {ErrAns, NoRow} \cup Rows(RowTimes(LastTSStart(b, chain, at), at))

\* variant of LastTS: without the default arm of the switch on col
LastTSAnyCol(b, cl, at, ans) ==
    IF ans.kind = "err" THEN [lt |-> at - b.RPeriod, err |-> "err"]
    ELSE IF ans.kind = "norow" THEN [lt |-> at - b.RPeriod, err |-> Nil]
    ELSE [lt |-> ans.v, err |-> Nil]

\* variant of LastTS: the default is the start of the queried range
LastTSRangeDefault(b, cl, at, ans) ==
    LET dflt == IF b.From # 0 THEN at - buckets[b.From].RPeriod ELSE at - b.RPeriod IN
    IF cl \notin KnownCols THEN [lt |-> dflt, err |-> "err"]
    ELSE IF ans.kind \in {"err", "norow"}
         THEN [lt |-> dflt, err |-> IF ans.kind = "err" THEN "err" ELSE Nil]
    ELSE [lt |-> ans.v, err |-> Nil]

\* lt is now - b.RPeriod unless a row is read; an unknown collection fails before any query.
\* (An error met after a row was read leaves lt at that row: for the caller that logs the
\* error and goes on it is the row answer, for the caller that returns it is the error answer.)
LastTS(b, cl, at, ans) ==
    IF cl \notin KnownCols THEN [lt |-> at - b.RPeriod, err |-> "err"]
    ELSE IF ans.kind = "err" THEN [lt |-> at - b.RPeriod, err |-> "err"]
    ELSE IF ans.kind = "norow" THEN [lt |-> at - b.RPeriod, err |-> Nil]
    ELSE [lt |-> ans.v, err |-> Nil]

(* ---------------- Downsample: pure parts ---------------- *)
\* variant of AggrFactor: cardinality 0 leaves AggrCnt as it is
AggrFactorZeroPlain(ac, crd) ==
    IF crd = 0 THEN ac
    ELSE IF crd < 100 THEN ac * 20
    ELSE IF crd < 1000 THEN ac * 10
    ELSE ac

\* variant of AggrFactor: the limits 100 and 1000 belong to the lower side
AggrFactorInclusive(ac, crd) ==
    IF crd # 0 /\ crd <= 100 THEN ac * 20
    ELSE IF crd <= 1000 THEN ac * 10
    ELSE ac

\* "how many aggregations to do at once": the switch on card
AggrFactor(ac, crd) ==
    IF crd # 0 /\ crd < 100 THEN ac * 20
    ELSE IF crd < 1000 THEN ac * 10
    ELSE ac

\* variant of ChunkWidth: AggrCnt aggregations at once whatever the cardinality
ChunkWidthPlain(ac, crd, aInterv) == ac * aInterv

\* c := time.Duration(ac) * b.AInterv
ChunkWidth(ac, crd, aInterv) == AggrFactor(ac, crd) * aInterv

\* variant of ShrinkTo: stops as soon as tTs is not after ft
RECURSIVE ShrinkToNotAfter(_, _, _)
ShrinkToNotAfter(x, srcLast, aInterv) ==
    IF x <= srcLast THEN x ELSE ShrinkToNotAfter(x - aInterv, srcLast, aInterv)

\* the inner loop: reduce tTs by b.AInterv until it is before ft
RECURSIVE ShrinkTo(_, _, _)
ShrinkTo(x, srcLast, aInterv) ==
    IF x < srcLast THEN x ELSE ShrinkTo(x - aInterv, srcLast, aInterv)

\* variant of MoreToDo: the loop goes on up to ft itself
MoreToDoToFrontier(from, srcLast, aInterv) == from < srcLast

\* variant of MoreToDo: the loop stops two intervals short of ft
MoreToDoTwoShort(from, srcLast, aInterv) == from < srcLast - 2 * aInterv

\* the outer loop condition: fTs.Before(ft.Add(-1 * b.AInterv))
MoreToDo(from, srcLast, aInterv) == from < srcLast - aInterv

\* the program switch: the arm taken for (b.From.First, col); found is FALSE for the default arm
ProgramArm(srcFirst, cl) ==
    [found |-> cl \in KnownCols, col |-> cl, srcFirst |-> srcFirst]

\* one write of a program: stream |> [filter aggregate == sel] |> aggregateWindow(fn)
\* |> [map _field + suffix] |> [set aggregate = set] |> to(org, bucket); fields is the
\* _field filter of the stream, deriv says that the stream is a derivative
Wr(stream, fields, deriv, sel, fn, suffix, set) ==
    [stream |-> stream, fields |-> fields, deriv |-> deriv, sel |-> sel, fn |-> fn,
     suffix |-> suffix, set |-> set]

\* the writes of the head arms of ifstats and iftraffic, for their counter and status fields
IfHeadWrites(counters, status) ==
    <<Wr("toCounterData", counters, FALSE, "", "last", "", "last"),
      Wr("toCountPsData", counters, TRUE, "", "max", "Max", "max"),
      Wr("toCountPsData", counters, TRUE, "", "min", "Min", "min"),
      Wr("toMaxData", status, FALSE, "", "max", "", "max")>>

\* the writes of a non-head arm of the telegraf collections: one per stored label
Relabelled(labels) ==
    [k \in DOMAIN labels |-> Wr("allData", "", FALSE, labels[k], labels[k], "", "")]

\* variant of ArmWrites: a non-head arm that takes the derivative of its max and min rows again
ArmWritesDerivAgain(srcFirst, cl) ==
    IF srcFirst
    THEN <<Wr("allData", "", FALSE, "", "mean", "", "mean")>>
    ELSE <<Wr("toCountPsData", "", TRUE, "max", "max", "", ""),
           Wr("toCountPsData", "", TRUE, "min", "min", "", ""),
           Wr("allData", "", FALSE, "last", "last", "", "")>>

\* variant of ArmWrites: head arms without the writes of the minima
ArmWritesNoMin(srcFirst, cl) ==
    IF cl = "icingachk"
    THEN <<Wr("toMeanData", "^value$", FALSE, "", "mean", "", "mean"),
           Wr("toMeanData", "^value$", FALSE, "", "max", "", "max"),
           Wr("toLastData", "^(crit|min|max|warn|unit)$", FALSE, "", "last", "", "last")>>
    ELSE <<Wr("allData", "", FALSE, "", "last", "", "last"),
           Wr("allData", "", FALSE, "", "max", "Max", "max")>>

\* the writes of the program of each arm of the switch, in the order of the text
ArmWrites(srcFirst, cl) ==
    IF cl = "ifstats"
    THEN IF srcFirst
         THEN IfHeadWrites("^if(?:HC)*(?:In|Out)", "^(?:ifAdminStatus|ifOperStatus)$")
         ELSE Relabelled(<<"max", "min", "last">>)
    ELSE IF cl = "iftraffic"
    THEN IF srcFirst
         THEN IfHeadWrites("ifHCInOctets|ifHCOutOctets", "ifOperStatus")
         ELSE Relabelled(<<"max", "min", "last">>)
    ELSE IF cl = "gengauge"
    THEN IF srcFirst
         THEN <<Wr("allData", "", FALSE, "", "mean", "", "mean"),
                Wr("allData", "", FALSE, "", "max", "Max", "max"),
                Wr("allData", "", FALSE, "", "min", "Min", "min")>>
         ELSE Relabelled(<<"mean", "max", "min">>)
    ELSE IF cl = "gencounter"
    THEN IF srcFirst
         THEN <<Wr("allData", "", FALSE, "", "last", "", "last"),
                Wr("toCountPsData", "", TRUE, "", "max", "Max", "max"),
                Wr("toCountPsData", "", TRUE, "", "min", "Min", "min")>>
         ELSE Relabelled(<<"max", "min", "last">>)
    ELSE IF cl = "icingachk"
    THEN IF srcFirst
         THEN <<Wr("toMeanData", "^value$", FALSE, "", "mean", "", "mean"),
                Wr("toMeanData", "^value$", FALSE, "", "min", "", "min"),
                Wr("toMeanData", "^value$", FALSE, "", "max", "", "max"),
                Wr("toLastData", "^(crit|min|max|warn|unit)$", FALSE, "", "last", "", "last")>>
         ELSE <<Wr("toMeanData", "^(value|execution_time|latency)$", FALSE, "mean", "mean", "", "mean"),
                Wr("toMeanData", "^(value|execution_time|latency)$", FALSE, "min", "min", "", "min"),
                Wr("toMeanData", "^(value|execution_time|latency)$", FALSE, "max", "max", "", "max"),
                Wr("toLastData", "^(reachable|acknowledgement|crit|downtime_depth|min|max|warn|unit)$",
                   FALSE, "last", "last", "", "last")>>
    ELSE <<>>

\* variant of QueryRange: start and stop exchanged
QueryRangeSwapped(from, to) == [start |-> Unix(to), stop |-> Unix(from)]

\* the window of the program text: range(start: fTs.Unix(), stop: tTs.Unix())
QueryRange(from, to) == [start |-> Unix(from), stop |-> Unix(to)]

\* every write ends with to(org: i.Org, bucket: b.Name)
WritesTo(ws, org, name) ==
    [k \in DOMAIN ws |-> [w |-> ws[k], org |-> org, bucket |-> name]]

\* variant of Program: a program built while the gate is closed reads no rows
ProgramByGate(b, src, from, to, inst, cl, org) ==
    [found |-> TRUE, col |-> cl, srcFirst |-> src.First,
     start |-> QueryRange(from, to).start, stop |-> QueryRange(from, to).stop,
     src |-> src.Name, inst |-> inst, every |-> b.AInterv,
     writes |-> IF DbHasResources THEN WritesTo(ArmWrites(src.First, cl), org, b.Name) ELSE <<>>]

\* the text q of the arm for (b.From.First, col): from(b.From.Name), range(fTs, tTs), the
\* rows of inst, and the writes, each aggregateWindow(every: b.AInterv) and
\* to(org: i.Org, bucket: b.Name)
Program(b, src, from, to, inst, cl, org) ==
    [found |-> ProgramArm(src.First, cl).found, col |-> cl, srcFirst |-> src.First,
     start |-> QueryRange(from, to).start, stop |-> QueryRange(from, to).stop,
     src |-> src.Name, inst |-> inst, every |-> b.AInterv,
     writes |-> WritesTo(ArmWrites(src.First, cl), org, b.Name)]

\* Influx.Org, the configured organization
Org == "org"

(* ---------------- Resource Monitor (App.startResMon) ---------------- *)
TaskAnswers == {ErrAns, NoRow} \cup Rows({0, 2})
MemAnswers == {ErrAns, NoRow} \cup Rows({40, 41})

\* the tick stops at the task check: error, no value, or *tasks > 0
TasksFail(tk) == IF tk.kind # "row" THEN TRUE ELSE tk.v > 0

\* variant of MemFail: memory at the limit stops the tick as well
MemFailAtLimit(mm, limit) == IF mm.kind # "row" THEN TRUE ELSE mm.v >= limit

\* the tick stops at the memory check: error, no value, or *mem > DsMemLimit
MemFail(mm, limit) == IF mm.kind # "row" THEN TRUE ELSE mm.v > limit

\* one tick of the ticker loop: the value DbHasResources is left with
MonTick ==
    /\ proc = "running"
    /\ \E tk \in TaskAnswers :
        /\ monTasks' = tk
        /\ IF TasksFail(tk)
           THEN /\ monMem' = NotRead
                /\ DbHasResources' = FALSE
           ELSE \E mm \in MemAnswers :
                /\ monMem' = mm
                /\ DbHasResources' = ~MemFail(mm, DsMemLimit)
    /\ gateUp' = (gateUp \/ DbHasResources')
    /\ UNCHANGED <<clock, confVars, bwVars, workVars, dsVars, fnVars, histVars, runVars>>

(* ---------------- Tier Walker (Influx.Downsample), one step per DB call ---------------- *)
Tgt == buckets[bi]
Src == buckets[Tgt.From]
IdleQ ==
    [found |-> FALSE, col |-> "", srcFirst |-> FALSE, start |-> 0, stop |-> 0,
     src |-> "", inst |-> "", every |-> 0, writes |-> <<>>]

\* a DB call enters the history, when it is kept: its outcome, and the time or the
\* cardinality it returned, or the window it submitted
DbCall(name, ok, val) == [call |-> name, ok |-> ok, val |-> val]
Logged(e) == dbLog' = IF watch THEN Append(dbLog, e) ELSE dbLog

\* variant of NothingToDo: the guard never fires
NothingToDoNever(from, aInterv, at) == FALSE

\* "omit buckets which by nature must not have data for downsampling":
\* fTs.Add(b.AInterv).Compare(now) >= 0
NothingToDo(from, aInterv, at) == from + aInterv >= at

\* the head of the outer loop: the next window and the gate wait, or the end of the walk
LoopHead(from, width) ==
    IF MoreToDo(from, ft', Tgt.AInterv)
    THEN /\ tTs' = ShrinkTo(from + width, ft', Tgt.AInterv)
         /\ dPc' = "gate"
         /\ dErr' = Nil
    ELSE /\ tTs' = tTs
         /\ dPc' = "ret"
         /\ dErr' = Nil

\* entry: now := time.Now(); the default range start
DsEnter ==
    /\ wPc = "ds" /\ dPc = "enter"
    /\ now' = clock
    /\ fTs' = clock - Src.RPeriod
    /\ dPc' = "srcTS"
    /\ gateUp' = DbHasResources
    /\ UNCHANGED <<clock, confVars, bwVars, monVars, workVars, fnVars, histVars, runVars,
                   ft, t, tTs, card, c, q, dErr, nExec, lastWin, dbLog>>

\* ft, err := i.LastTS(b.From, inst, col); an error ends the call
DsSrcTS ==
    /\ wPc = "ds" /\ dPc = "srcTS"
    /\ \E lat \in {0, MaxLatency} :
         /\ clock' = clock + lat
         /\ \E ans \in LastTSAnswers(Src, buckets, clock') :
              LET r == LastTS(Src, col, clock', ans) IN
              /\ Logged(DbCall("srcTS", r.err = Nil, <<r.lt>>))
              /\ IF r.err # Nil
                 THEN /\ dErr' = "srcTS" /\ dPc' = "ret" /\ ft' = ft
                 ELSE /\ dErr' = Nil /\ dPc' = "tgtTS" /\ ft' = r.lt
    /\ UNCHANGED <<confVars, bwVars, monVars, workVars, fnVars, histVars, runVars, gateUp,
                   now, t, fTs, tTs, card, c, q, nExec, lastWin>>

\* variant of DsTgtTS: an error of the target-frontier query ends the call
DsTgtTSFatal ==
    /\ wPc = "ds" /\ dPc = "tgtTS"
    /\ \E ans \in LastTSAnswers(Tgt, buckets, clock) :
         LET r == LastTS(Tgt, col, clock, ans) IN
         /\ t' = r.lt
         /\ fTs' = r.lt
         /\ dPc' = IF r.err # Nil \/ NothingToDo(r.lt, Tgt.AInterv, now) THEN "ret" ELSE "card"
         /\ dErr' = IF r.err # Nil THEN "tgtTS" ELSE Nil
         /\ Logged(DbCall("tgtTS", r.err = Nil, <<r.lt>>))
    /\ UNCHANGED <<clock, confVars, bwVars, monVars, workVars, fnVars, histVars, runVars, gateUp,
                   now, ft, tTs, card, c, q, nExec, lastWin>>

\* t, err := i.LastTS(b, inst, col) (an error is only logged); fTs = t; the nothing-to-do guard
DsTgtTS ==
    /\ wPc = "ds" /\ dPc = "tgtTS"
    /\ \E ans \in LastTSAnswers(Tgt, buckets, clock) :
         LET r == LastTS(Tgt, col, clock, ans) IN
         /\ t' = r.lt
         /\ fTs' = r.lt
         /\ dPc' = IF NothingToDo(r.lt, Tgt.AInterv, now) THEN "ret" ELSE "card"
         /\ Logged(DbCall("tgtTS", r.err = Nil, <<r.lt>>))
    /\ dErr' = Nil
    /\ UNCHANGED <<clock, confVars, bwVars, monVars, workVars, fnVars, histVars, runVars, gateUp,
                   now, ft, tTs, card, c, q, nExec, lastWin>>

\* the answers of the cardinality query of Downsample: the stored cardinality of a scenario
CardProbeAnswers ==
    IF scen.on THEN {Ans("row", scen.card)}
    ELSE {ErrAns} \cup Rows(CardVals) \cup RowErrs(CardVals)

\* card, err := i.Cardinality(b.From, inst) (an error is only logged); ac, c; first loop test
DsCard ==
    /\ wPc = "ds" /\ dPc = "card"
    /\ \E ans \in CardProbeAnswers :
         /\ card' = CardinalityOf(ans).c
         /\ c' = ChunkWidth(AggrCnt, card', Tgt.AInterv)
         /\ Logged(DbCall("card", CardinalityOf(ans).err = Nil, <<card'>>))
    /\ ft' = ft
    /\ LoopHead(fTs, c')
    /\ UNCHANGED <<clock, confVars, bwVars, monVars, workVars, fnVars, histVars, runVars, gateUp,
                   now, t, fTs, q, nExec, lastWin>>

\* variant of GateClosed: the walker never waits
GateNeverClosed(has) == FALSE

\* variant of GateClosed: the walker waits whatever the gate says
GateAlwaysClosed(has) == TRUE

\* the test of the wait loop in Downsample: if !i.DbHasResources
GateClosed(has) == ~has

\* variant of DsGate: a poll that finds the gate closed gives the chunk up and moves the cursor on
DsGateDropping ==
    /\ wPc = "ds" /\ dPc = "gate"
    /\ IF GateClosed(DbHasResources)
       THEN /\ polls < MaxPolls
            /\ polls' = polls + 1
            /\ clock' = clock + GateSleep
            /\ fTs' = fTs + c
            /\ UNCHANGED <<dPc, now, ft, t, tTs, card, c, q, dErr, nExec, lastWin, dbLog>>
       ELSE /\ polls' = polls
            /\ clock' = clock
            /\ q' = Program(Tgt, Src, fTs, tTs, instances[ii], col, Org)
            /\ fTs' = fTs + c
            /\ dPc' = "exec"
            /\ UNCHANGED <<now, ft, t, tTs, card, c, dErr, nExec, lastWin, dbLog>>
    /\ UNCHANGED <<confVars, bwVars, monVars, fnVars, histVars, runVars, gateUp,
                   instances, wPc, firstRun, bi, ii, ts, cycle, wErr>>

\* variant of NextCursor: the cursor stops a second short of the chunk
NextCursorShort(from, width) == from + width - Second

\* fTs = fTs.Add(c): the cursor moves by the full chunk, shrunk window or not
NextCursor(from, width) == from + width

\* "Check for resources": one poll of the gate; then the program is built and the cursor advanced
DsGate ==
    /\ wPc = "ds" /\ dPc = "gate"
    /\ IF GateClosed(DbHasResources)
       THEN /\ polls < MaxPolls
            /\ polls' = polls + 1
            /\ clock' = clock + GateSleep
            /\ UNCHANGED <<dsVars>>
       ELSE LET arm == ProgramArm(Src.First, col) IN
            /\ polls' = polls
            /\ clock' = clock
            /\ IF arm.found
               THEN /\ q' = Program(Tgt, Src, fTs, tTs, instances[ii], col, Org)
                    /\ fTs' = NextCursor(fTs, c)
                    /\ dPc' = "exec"
                    /\ dErr' = dErr
               ELSE /\ q' = q /\ fTs' = fTs /\ dPc' = "ret" /\ dErr' = "noprog"
            /\ UNCHANGED <<now, ft, t, tTs, card, c, nExec, lastWin, dbLog>>
    /\ UNCHANGED <<confVars, bwVars, monVars, fnVars, histVars, runVars, gateUp,
                   instances, wPc, firstRun, bi, ii, ts, cycle, wErr>>

\* variant of DsExec: an error of QueryRaw is passed over and the loop goes on
DsExecGoesOn ==
    /\ wPc = "ds" /\ dPc = "exec"
    /\ nExec' = nExec + 1
    /\ lastWin' = <<q.start, q.stop>>
    /\ ft' = ft
    /\ \E res \in {"ok", "err"} : Logged(DbCall("exec", res = "ok", <<q.start, q.stop>>))
    /\ LoopHead(fTs, c)
    /\ UNCHANGED <<clock, confVars, bwVars, monVars, workVars, fnVars, histVars, runVars, gateUp,
                   now, t, fTs, card, c, q>>

\* queryAPI.QueryRaw(q): an error ends the call, otherwise the loop goes on
DsExec ==
    /\ wPc = "ds" /\ dPc = "exec"
    /\ nExec' = nExec + 1
    /\ lastWin' = <<q.start, q.stop>>
    /\ ft' = ft
    /\ \E res \in {"ok", "err"} :
         /\ Logged(DbCall("exec", res = "ok", <<q.start, q.stop>>))
         /\ IF res = "err"
            THEN /\ dErr' = "exec" /\ dPc' = "ret" /\ tTs' = tTs
            ELSE LoopHead(fTs, c)
    /\ UNCHANGED <<clock, confVars, bwVars, monVars, workVars, fnVars, histVars, runVars, gateUp,
                   now, t, fTs, card, c, q>>

(* ---------------- Collection Scheduler (App.workOn) ---------------- *)
EnumAnswers == {[kind |-> "err", list |-> <<>>]} \cup {[kind |-> "rows", list |-> l] : l \in InstanceLists}
CardAnswers == {ErrAns} \cup Rows(CardVals) \cup RowErrs(CardVals)

\* the values the Downsample locals are left with between calls
DsIdle ==
    /\ dPc' = "idle" /\ now' = 0 /\ ft' = 0 /\ t' = 0 /\ fTs' = 0 /\ tTs' = 0
    /\ card' = 0 /\ c' = 0 /\ q' = IdleQ /\ dErr' = Nil /\ nExec' = 0 /\ lastWin' = <<0, 0>>
    /\ dbLog' = <<>>
    /\ gateUp' = FALSE

\* variant of HeadSkipped: the head tier is enumerated in every cycle, the first included
HeadSkippedNever(fr) == FALSE

\* "if firstRun { continue }": the head tier is passed without enumeration
HeadSkipped(fr) == fr

\* variant of IsHead: the test negated
IsHeadNegated(b) == ~b.First

\* "if bucket.First": the bucket is the head tier
IsHead(b) == b.First

\* "if bucket.First { if firstRun { continue }": the head tier in the first cycle
WorkHeadSkip ==
    /\ wPc = "bucket" /\ bi <= Len(buckets) /\ cycle <= MaxCycles
    /\ IsHead(buckets[bi]) /\ HeadSkipped(firstRun)
    /\ bi' = bi + 1
    /\ UNCHANGED <<clock, confVars, bwVars, monVars, dsVars, fnVars, histVars, runVars, gateUp,
                   instances, wPc, firstRun, ii, ts, polls, cycle, wErr>>

\* the head tier in a later cycle: inst, err := GetDsInstances(&bucket, c); instances = inst[cg]
WorkEnumerate ==
    /\ wPc = "bucket" /\ bi <= Len(buckets) /\ cycle <= MaxCycles
    /\ IsHead(buckets[bi]) /\ ~HeadSkipped(firstRun)
    /\ \E ans \in EnumAnswers :
         IF ans.kind = "err"
         THEN /\ wErr' = "err" /\ wPc' = "returned"
              /\ UNCHANGED <<instances, bi, enumCycle, enumList>>
         ELSE \E probe \in [Instances -> CardAnswers] :
                LET inst == GetDsInstances(ans.list, probe, CardMedium, CardHevy) IN
                /\ instances' = inst[cg]
                /\ enumCycle' = cycle
                /\ enumList' = inst[cg]
                /\ bi' = bi + 1
                /\ UNCHANGED <<wErr, wPc>>
    /\ UNCHANGED <<clock, confVars, bwVars, monVars, dsVars, fnVars, runVars, gateUp,
                   firstRun, ii, ts, polls, cycle, calls, lastErr>>

\* a non-head tier: the range over instances starts (or is empty)
WorkTier ==
    /\ wPc = "bucket" /\ bi <= Len(buckets) /\ cycle <= MaxCycles
    /\ ~IsHead(buckets[bi])
    /\ IF instances = <<>>
       THEN /\ bi' = bi + 1 /\ UNCHANGED <<ii, wPc>>
       ELSE /\ ii' = 1 /\ wPc' = "wgate" /\ bi' = bi
    /\ UNCHANGED <<clock, confVars, bwVars, monVars, dsVars, fnVars, histVars, runVars, gateUp,
                   instances, firstRun, ts, polls, cycle, wErr>>

\* a wait at the gate of workOn that finds it closed on LongWait polls in a row lasts 3 h
LongWait == MinCycle \div GateSleep

\* the lengths, in polls, of the waits explored: the long one before the last call of the
\* last cycle explored
GateWaits(cy, lastCall) == IF cy = MaxCycles /\ lastCall THEN {1, LongWait} ELSE {1}

\* the test of the wait loop in workOn: if !a.db.DbHasResources
WorkGateClosed(has) == ~has

\* "Check for resources" before the call: one poll of the gate, then a.db.Downsample starts
WorkGate ==
    /\ wPc = "wgate"
    /\ IF WorkGateClosed(DbHasResources)
       THEN /\ polls < MaxPolls
            /\ polls' = polls + 1
            /\ \E n \in GateWaits(cycle, bi = Len(buckets) /\ ii = Len(instances)) : clock' = clock + n * GateSleep
            /\ UNCHANGED <<wPc, dPc, calls>>
       ELSE /\ polls' = polls
            /\ clock' = clock
            /\ wPc' = "ds"
            /\ dPc' = "enter"
            /\ calls' = Append(calls, <<bi, instances[ii]>>)
    /\ UNCHANGED <<confVars, bwVars, monVars, fnVars, runVars, gateUp, instances, firstRun, bi, ii, ts, cycle, wErr,
                   lastErr, enumCycle, enumList,
                   now, ft, t, fTs, tTs, card, c, q, dErr, nExec, lastWin, dbLog>>

\* variant of MoreInstances: the range ends one element early
MoreInstancesButLast(i, n) == i + 1 < n

\* "for _, i := range instances": after element i of n another one follows
MoreInstances(i, n) == i < n

\* Downsample returned: on error log and sleep 10 s; next instance, or next bucket
WorkAfterDs ==
    /\ wPc = "ds" /\ dPc = "ret"
    /\ clock' = IF dErr # Nil THEN clock + ErrSleep ELSE clock
    /\ IF MoreInstances(ii, Len(instances))
       THEN /\ ii' = ii + 1 /\ wPc' = "wgate" /\ bi' = bi
       ELSE /\ ii' = 0 /\ wPc' = "bucket" /\ bi' = bi + 1
    /\ DsIdle
    /\ lastErr' = (dErr # Nil)
    /\ UNCHANGED <<confVars, bwVars, monVars, fnVars, runVars, instances, firstRun, ts, polls, cycle, wErr,
                   calls, enumCycle, enumList>>

\* "if time.Since(a.startTS) < 10*time.Second"
WatchdogSpan == 10 * Second

\* variant of FloorSleep: a fixed pause of 3 h less the 10 s of an error sleep
FloorSleepShort(elapsed) == IF elapsed < MinCycle THEN MinCycle - elapsed - ErrSleep ELSE 0

\* "if elapsed < 3*time.Hour { sd := 3*time.Hour - elapsed; time.Sleep(sd) }"
FloorSleep(elapsed) == IF elapsed < MinCycle THEN MinCycle - elapsed ELSE 0

\* after the last bucket: sleep up to the 3 h floor, clear firstRun, restart the timer
WorkCycleEnd ==
    /\ wPc = "bucket" /\ bi > Len(buckets)
    /\ cycle <= MaxCycles
    /\ clock' = clock + FloorSleep(clock - ts)
    /\ firstRun' = FALSE
    /\ ts' = clock'
    /\ bi' = 1
    /\ cycle' = cycle + 1
    /\ polls' = 0
    /\ calls' = <<>>
    /\ lastErr' = FALSE
    /\ UNCHANGED <<confVars, bwVars, monVars, dsVars, fnVars, runVars, gateUp, instances, wPc, ii, wErr,
                   enumCycle, enumList>>

(* ---------------- App.Run: the end of a worker goroutine and of the process ---------------- *)
\* the goroutine after workOn returned: the error is logged; PrintFatal when less than 10 s
\* have passed since startTS; otherwise the deferred wg.Done()
RunWorkerEnd ==
    /\ proc = "running" /\ wPc = "returned"
    /\ IF clock - startTS < WatchdogSpan
       THEN /\ proc' = "fatal" /\ fatalBy' = "watchdog"
            /\ UNCHANGED <<wg, wPc>>
       ELSE /\ wg' = wg - 1 /\ wPc' = "done"
            /\ UNCHANGED <<proc, fatalBy>>
    /\ UNCHANGED <<clock, confVars, bwVars, monVars, dsVars, fnVars, histVars, gateUp, startTS,
                   startVars, instances, firstRun, bi, ii, ts, polls, cycle, wErr>>

\* wg.Wait() returns once the counter is 0; then PrintFatal("fatal error, interrupting")
RunWaitEnd ==
    /\ proc = "running" /\ rPc = "wait" /\ wg = 0
    /\ proc' = "fatal" /\ fatalBy' = "wait"
    /\ UNCHANGED <<clock, confVars, bwVars, monVars, workVars, dsVars, fnVars, histVars, gateUp, wg,
                   startTS, startVars>>

(* ---------------- App.Run: the start of the workers ---------------- *)
\* configured names explored: the collections of the db package and one it does not know
ConfCols == KnownCols \cup {"bogus"}
ColSeqs == UNION {[1..n -> ConfCols] : n \in 1..MaxCols}

\* b2d, b7d, b28d, b730d
TelegrafChain ==
    <<Bucket("telegraf/2d", 2 * 60, 48 * 3600, TRUE, 0),
      Bucket("telegraf/7d", 8 * 60, 168 * 3600, FALSE, 1),
      Bucket("telegraf/28d", 30 * 60, 672 * 3600, FALSE, 2),
      Bucket("telegraf/all", 180 * 60, 17520 * 3600, FALSE, 3)>>
\* b1w, b4w, ball
IcingaChain ==
    <<Bucket("icinga2/one_week", 1 * 60, 168 * 3600, TRUE, 0),
      Bucket("icinga2/four_weeks", 30 * 60, 672 * 3600, FALSE, 1),
      Bucket("icinga2/all", 180 * 60, 17520 * 3600, FALSE, 2)>>

\* variant of CollectionBuckets: the telegraf chain for every collection of the db package
CollectionBucketsAll(s) ==
    IF s = "icingachk" THEN [err |-> Nil, chain |-> IcingaChain]
    ELSE IF s \in KnownCols THEN [err |-> Nil, chain |-> TelegrafChain]
    ELSE [err |-> "unknown collection", chain |-> <<>>]

\* App.collectionBuckets(s): the map has the keys "iftraffic" and "icingachk"
CollectionBuckets(s) ==
    IF s = "iftraffic" THEN [err |-> Nil, chain |-> TelegrafChain]
    ELSE IF s = "icingachk" THEN [err |-> Nil, chain |-> IcingaChain]
    ELSE [err |-> "unknown collection", chain |-> <<>>]

\* "buckets, err := a.collectionBuckets(c); if err != nil { helpers.PrintFatal(...) }";
\* after the last collection Run waits
RunBuckets ==
    /\ proc = "running" /\ rPc = "buckets"
    /\ IF rIdx > Len(dsCollections)
       THEN /\ rPc' = "wait"
            /\ UNCHANGED <<proc, fatalBy, rBuckets>>
       ELSE LET r == CollectionBuckets(dsCollections[rIdx]) IN
            IF r.err # Nil
            THEN /\ proc' = "fatal" /\ fatalBy' = "buckets"
                 /\ UNCHANGED <<rPc, rBuckets>>
            ELSE /\ rBuckets' = r.chain /\ rPc' = "instances"
                 /\ UNCHANGED <<proc, fatalBy>>
    /\ UNCHANGED <<clock, confVars, bwVars, monVars, workVars, dsVars, fnVars, histVars, gateUp,
                   wg, startTS, dsCollections, rIdx, workers, ended, wList, lastEnum>>

\* no GetDsInstances call yet
NoWorker == [c |-> "", cg |-> "", k |-> 0]
NoEnum == [kind |-> "none", w |-> NoWorker, i |-> [g \in Groups |-> <<>>]]

\* variant of SpawnGroups: a goroutine for each of the three groups
SpawnGroupsAll(i) == Groups
\* "for cgroup, inst := range i": the keys of the map, which are the groups that got an instance
SpawnGroups(i) == {g \in Groups : i[g] # <<>>}

\* "i, err := a.db.GetDsInstances(&buckets[0], c); if err != nil { helpers.PrintFatal(...) }",
\* then one goroutine for every group in the map
RunInstances ==
    /\ proc = "running" /\ rPc = "instances"
    /\ \E ans \in EnumAnswers :
         IF ans.kind = "err"
         THEN /\ proc' = "fatal" /\ fatalBy' = "instances"
              /\ UNCHANGED <<rPc, rIdx, workers, wList, lastEnum>>
         ELSE \E probe \in [Instances -> CardAnswers] :
                LET i == GetDsInstances(ans.list, probe, CardMedium, CardHevy)
                    new == {[c |-> dsCollections[rIdx], cg |-> g, k |-> rIdx] :
                                g \in SpawnGroups(i)}
                IN
                /\ workers' = workers \cup new
                /\ IF watch
                   THEN /\ wList' = [w \in workers \cup new |->
                                        IF w \in new THEN i[w.cg] ELSE wList[w]]
                        /\ lastEnum' = [kind |-> "run", w |-> NoWorker, i |-> i]
                   ELSE UNCHANGED <<wList, lastEnum>>
                /\ rIdx' = rIdx + 1
                /\ rPc' = "buckets"
                /\ UNCHANGED <<proc, fatalBy>>
    /\ UNCHANGED <<clock, confVars, bwVars, monVars, workVars, dsVars, fnVars, histVars, gateUp,
                   wg, startTS, dsCollections, rBuckets, ended>>

\* the goroutine of worker w after its workOn returned, which is no earlier than the floor
\* sleep of its first cycle: PrintFatal when less than 10 s have passed since startTS;
\* otherwise the deferred wg.Done(), which panics ("sync: negative WaitGroup counter") when
\* the counter, set by the one wg.Add(1) of Run, is 0 already
RunGoEnd ==
    /\ proc = "running"
    /\ \E w \in workers \ ended, d \in {0, Second} :
         LET at == (IF clock < startTS + MinCycle THEN startTS + MinCycle ELSE clock) + d IN
         /\ clock' = at
         /\ ended' = ended \cup {w}
         /\ IF at - startTS < WatchdogSpan
            THEN /\ proc' = "fatal" /\ fatalBy' = "watchdog"
                 /\ UNCHANGED wg
            ELSE IF wg = 0
            THEN /\ proc' = "panic"
                 /\ UNCHANGED <<fatalBy, wg>>
            ELSE /\ wg' = wg - 1
                 /\ UNCHANGED <<proc, fatalBy>>
    /\ UNCHANGED <<confVars, bwVars, monVars, workVars, dsVars, fnVars, histVars, gateUp,
                   startTS, dsCollections, rPc, rIdx, rBuckets, workers, wList, lastEnum>>

\* the head tier in a later cycle of worker w, which is no earlier than the floor sleep of
\* its first cycle, when the call succeeds: inst, err := GetDsInstances(&bucket, c);
\* instances = inst[cg]
RunGoEnumerate ==
    /\ proc = "running"
    /\ \E w \in workers \ ended, ans \in EnumAnswers, probe \in [Instances -> CardAnswers] :
         LET inst == GetDsInstances(ans.list, probe, CardMedium, CardHevy) IN
         /\ ans.kind # "err"
         /\ wList' = [wList EXCEPT ![w] = inst[w.cg]]
         /\ lastEnum' = [kind |-> "worker", w |-> w, i |-> inst]
    /\ clock' = (IF clock < startTS + MinCycle THEN startTS + MinCycle ELSE clock)
    /\ UNCHANGED <<confVars, bwVars, monVars, workVars, dsVars, fnVars, histVars, gateUp,
                   proc, fatalBy, wg, startTS, dsCollections, rPc, rIdx, rBuckets, workers, ended>>

(* ---------------- workOn of the monolithic App (src/app/app.go) ---------------- *)
\* The bucket loop of app.go's workOn is line for line that of part_003 (WorkHeadSkip,
\* WorkEnumerate, WorkTier); its resource monitor is MonTick. a.downsample is taken here as
\* one call that returns nil or an error after some time.

\* "Check for resources", then err := a.downsample(bucket, inst, c); on error log and sleep 10 s
MonoCall ==
    /\ wPc = "wgate"
    /\ IF WorkGateClosed(DbHasResources)
       THEN /\ polls < MaxPolls
            /\ polls' = polls + 1
            /\ \E n \in {1, LongWait} : clock' = clock + n * GateSleep
            /\ UNCHANGED <<wPc, bi, ii, calls, lastErr>>
       ELSE /\ polls' = polls
            /\ calls' = Append(calls, <<bi, instances[ii]>>)
            /\ \E err \in {Nil, "err"}, lat \in {0, MaxLatency} :
                 /\ lastErr' = (err # Nil)
                 /\ clock' = clock + lat + (IF err # Nil THEN ErrSleep ELSE 0)
            /\ IF MoreInstances(ii, Len(instances))
               THEN /\ ii' = ii + 1 /\ wPc' = "wgate" /\ bi' = bi
               ELSE /\ ii' = 0 /\ wPc' = "bucket" /\ bi' = bi + 1
    /\ UNCHANGED <<confVars, bwVars, monVars, dsVars, fnVars, runVars, gateUp, instances, firstRun,
                   ts, cycle, wErr, enumCycle, enumList>>

\* after the last bucket in app.go: "if elapsed < 3*time.Hour { ...; time.Sleep(sd); continue }",
\* and only otherwise firstRun = false; ts = time.Now()
MonoCycleEnd ==
    /\ wPc = "bucket" /\ bi > Len(buckets)
    /\ cycle <= MaxCycles
    /\ IF clock - ts < MinCycle
       THEN /\ clock' = clock + (MinCycle - (clock - ts))
            /\ UNCHANGED <<firstRun, ts>>
       ELSE /\ clock' = clock
            /\ firstRun' = FALSE
            /\ ts' = clock'
    /\ bi' = 1
    /\ cycle' = cycle + 1
    /\ polls' = 0
    /\ calls' = <<>>
    /\ lastErr' = FALSE
    /\ UNCHANGED <<confVars, bwVars, monVars, dsVars, fnVars, runVars, gateUp, instances, wPc, ii, wErr,
                   enumCycle, enumList>>

(* ---------------- GetDsInstances on drawn inputs ---------------- *)
ShardCards == {10, 50, 999, 1000}
\* Initialize takes any positive CardMedium and CardHevy, in either order
ShardLevels == {<<DefaultCardMedium, DefaultCardHevy>>, <<10, 999>>, <<1000, 50>>}
ShardInputs ==
    {[list |-> l, probe |-> p, cm |-> lv[1], ch |-> lv[2]] :
        l \in InstanceLists,
        p \in [Instances -> {ErrAns} \cup Rows(ShardCards) \cup RowErrs(ShardCards)],
        lv \in ShardLevels}

ShardApply ==
    /\ wPc = "fn" /\ shOut = <<>>
    /\ shOut' = <<GetDsInstances(shIn.list, shIn.probe, shIn.cm, shIn.ch)>>
    /\ UNCHANGED <<clock, confVars, bwVars, monVars, workVars, dsVars, gateUp, shIn, histVars, runVars>>

\* the cardinality switch of Downsample applied to the same probe answers: for every
\* instance the number of aggregations done at once
FactorApply ==
    /\ wPc = "fn" /\ Len(shOut) = 1
    /\ shOut' = Append(shOut,
                       [v \in Instances |-> AggrFactor(AggrCnt, CardinalityOf(shIn.probe[v]).c)])
    /\ UNCHANGED <<clock, confVars, bwVars, monVars, workVars, dsVars, gateUp, shIn, histVars, runVars>>

(* ---------------- specifications ---------------- *)
\* variant of GateDefault: the zero value of the field
GateZeroValue == FALSE
\* NewInflux: "DbHasResources: true, // default"
GateDefault == TRUE

InitCommon ==
    /\ clock = 0
    /\ DsMemLimit = DefaultMemLimit
    /\ CardMedium = DefaultCardMedium /\ CardHevy = DefaultCardHevy
    /\ DbHasResources = GateDefault
    /\ monTasks = NotRead /\ monMem = NotRead
    /\ firstRun = TRUE /\ bi = 1 /\ ii = 0 /\ ts = 0 /\ polls = 0 /\ cycle = 1 /\ wErr = Nil
    /\ dPc = "idle" /\ now = 0 /\ ft = 0 /\ t = 0 /\ fTs = 0 /\ tTs = 0
    /\ card = 0 /\ c = 0 /\ q = IdleQ /\ dErr = Nil /\ nExec = 0 /\ lastWin = <<0, 0>>
    /\ gateUp = FALSE
    /\ calls = <<>> /\ lastErr = FALSE /\ enumCycle = 0 /\ enumList = <<>>
    /\ proc = "running" /\ fatalBy = "none" /\ wg = 1 /\ startTS = 0
    /\ bwPc = "idle" /\ bwStart = 0 /\ bwProbe = [r |-> FALSE, err |-> Nil] /\ bwRet = "none"
    /\ bwWrites = 0 /\ bwRuns = 0 /\ bwProd = <<>>
    /\ dbLog = <<>>
    /\ ended = {} /\ wList = <<>> /\ lastEnum = NoEnum

\* Run has started the worker of (col, cg) and waits
RunStarted ==
    /\ dsCollections = <<col>> /\ rPc = "wait" /\ rIdx = 2 /\ rBuckets = buckets
    /\ workers = {[c |-> col, cg |-> cg, k |-> 1]}

\* workOn(c, cg, buckets, instances) as Run starts it: a chain, and a non-empty group
Init ==
    /\ InitCommon
    /\ scen = NoScen /\ bwPoints = {} /\ watch = FALSE
    /\ AggrCnt = DefaultAggrCnt
    /\ col = "iftraffic" /\ cg = "light"
    /\ buckets \in Chains
    /\ instances \in InstanceLists \ {<<>>}
    /\ wPc = "bucket"
    /\ shIn = <<>> /\ shOut = <<>>
    /\ RunStarted

Next ==
    \/ MonTick
    \/ WorkHeadSkip \/ WorkEnumerate \/ WorkTier \/ WorkGate \/ WorkAfterDs \/ WorkCycleEnd
    \/ DsEnter \/ DsSrcTS \/ DsTgtTS \/ DsCard \/ DsGate \/ DsExec
    \/ RunWorkerEnd \/ RunWaitEnd

Spec == Init /\ [][Next]_vars

\* Run from its first statement, for the configured collections
InitRun ==
    /\ InitCommon
    /\ scen = NoScen /\ bwPoints = {} /\ watch = FALSE
    /\ AggrCnt = DefaultAggrCnt
    /\ col = "" /\ cg = "" /\ buckets = <<>> /\ instances = <<>>
    /\ wPc = "run"
    /\ shIn = <<>> /\ shOut = <<>>
    /\ dsCollections \in ColSeqs /\ rPc = "buckets" /\ rIdx = 1 /\ rBuckets = <<>>
    /\ workers = {}

NextRun == MonTick \/ RunBuckets \/ RunInstances

SpecRun == InitRun /\ [][NextRun]_vars

\* Run with all its goroutines, each one taken from the return of its workOn
NextWait == RunBuckets \/ RunInstances \/ RunGoEnumerate \/ RunGoEnd \/ RunWaitEnd

\* the configurations followed to the end of Run
WaitCols == {<<"iftraffic">>, <<"icingachk">>}

InitWait ==
    /\ InitCommon
    /\ scen = NoScen /\ bwPoints = {} /\ watch = TRUE
    /\ AggrCnt = DefaultAggrCnt
    /\ col = "" /\ cg = "" /\ buckets = <<>> /\ instances = <<>>
    /\ wPc = "run"
    /\ shIn = <<>> /\ shOut = <<>>
    /\ dsCollections \in WaitCols /\ rPc = "buckets" /\ rIdx = 1 /\ rBuckets = <<>>
    /\ workers = {}

SpecWait == InitWait /\ [][NextWait]_vars

\* workOn of src/app/app.go, started as Run starts it
NextMono ==
    \/ MonTick
    \/ WorkHeadSkip \/ WorkEnumerate \/ WorkTier \/ MonoCall \/ MonoCycleEnd

SpecMono == Init /\ [][NextMono]_vars

\* the first cycle of a worker over one long-retention target
InitDs ==
    /\ InitCommon
    /\ scen = NoScen /\ bwPoints = {} /\ watch = FALSE
    /\ AggrCnt \in AggrCnts
    /\ col = "iftraffic" /\ cg = "light"
    /\ buckets \in ChainsDs
    /\ instances = <<"r1">>
    /\ wPc = "bucket"
    /\ shIn = <<>> /\ shOut = <<>>
    /\ RunStarted

NextDs ==
    \/ MonTick
    \/ WorkHeadSkip \/ WorkTier \/ WorkGate \/ WorkAfterDs
    \/ DsEnter \/ DsSrcTS \/ DsTgtTS \/ DsCard \/ DsGate \/ DsExec

SpecDs == InitDs /\ [][NextDs]_vars

\* SpecDs with every DB call of Downsample returning and the walker's goroutine scheduled
SpecDsLive ==
    /\ InitDs /\ [][NextDs]_vars
    /\ WF_vars(DsEnter) /\ WF_vars(DsSrcTS) /\ WF_vars(DsTgtTS) /\ WF_vars(DsCard)
    /\ WF_vars(DsGate) /\ WF_vars(DsExec)

\* the same first cycle, with the history of the DB calls kept
InitDsLog ==
    /\ InitCommon
    /\ scen = NoScen /\ bwPoints = {} /\ watch = TRUE
    /\ AggrCnt \in AggrCnts
    /\ col = "iftraffic" /\ cg = "light"
    /\ buckets \in ChainsDs
    /\ instances = <<"r1">>
    /\ wPc = "bucket"
    /\ shIn = <<>> /\ shOut = <<>>
    /\ RunStarted

SpecDsLog == InitDsLog /\ [][NextDs]_vars

\* Downsample called for a collection of the db package or for one it does not know
InitDsAny ==
    /\ InitCommon
    /\ scen = NoScen /\ bwPoints = {} /\ watch = FALSE
    /\ AggrCnt = DefaultAggrCnt
    /\ col \in {"iftraffic", "bogus"} /\ cg = "light"
    /\ buckets \in ChainsDs
    /\ instances = <<"r1">>
    /\ wPc = "bucket"
    /\ shIn = <<>> /\ shOut = <<>>
    /\ RunStarted

SpecDsAny == InitDsAny /\ [][NextDs]_vars

\* scenarios: the last rows stored per bucket (a bucket not named holds no row of the
\* instance) and the stored cardinality of the instance in the source bucket
Minute == 60 * Second
\* the source frontier T of the scenarios: a whole second, or not
ScenTs == {0 - Second, 0 - Second - 1}
ScenS1(T) ==
    [on |-> TRUE, id |-> "S1", col |-> "gengauge", tgt |-> 2, card |-> 200, T |-> T,
     last |-> ("telegraf/2d" :> T) @@ ("telegraf/7d" :> T - 200 * 8 * Minute)]
Scenarios == {ScenS1(T) : T \in ScenTs}

\* the chain of a scenario's collection
ScenChain(cl) == IF cl = "icingachk" THEN IcingaChain ELSE TelegrafChain

\* the first cycle of a worker over the chain of a scenario, the TSDB holding what the
\* scenario says
InitScen ==
    /\ InitCommon
    /\ scen \in Scenarios /\ bwPoints = {} /\ watch = FALSE
    /\ AggrCnt = DefaultAggrCnt
    /\ col = scen.col /\ cg = "light"
    /\ buckets = ScenChain(col)
    /\ instances = <<"r1">>
    /\ wPc = "bucket"
    /\ shIn = <<>> /\ shOut = <<>>
    /\ RunStarted

SpecScen == InitScen /\ [][NextDs]_vars

\* LastTS called at some instant on a bucket of a chain, for a collection of the db
\* package or for one it does not know, with every answer the query can give
LastTSInputs(chain) ==
    {[b |-> i, col |-> cl, at |-> a, ans |-> ans] :
        i \in DOMAIN chain, cl \in KnownCols \cup {"bogus"}, a \in {0, 1, MaxLatency},
        ans \in {ErrAns, NoRow} \cup Rows(0 - 2 * Second .. 0 - 1)}

LastTSApply ==
    /\ wPc = "lts" /\ shOut = <<>>
    /\ shOut' = <<LastTS(buckets[shIn.b], shIn.col, shIn.at, shIn.ans)>>
    /\ UNCHANGED <<clock, confVars, bwVars, monVars, workVars, dsVars, gateUp, shIn, histVars, runVars>>

InitLts ==
    /\ InitCommon
    /\ scen = NoScen /\ bwPoints = {} /\ watch = FALSE
    /\ AggrCnt = DefaultAggrCnt
    /\ col = "iftraffic" /\ cg = "light"
    /\ buckets \in Chains \cup ChainsDs
    /\ instances = <<>>
    /\ wPc = "lts"
    /\ shIn \in LastTSInputs(buckets) /\ shOut = <<>>
    /\ RunStarted

SpecLts == InitLts /\ [][LastTSApply]_vars

(* ---------------- lastTS of the monolithic App (src/app/app.go) ---------------- *)
\* "var lt time.Time": the zero time, January 1 of year 1, which is before every instant
\* and every retention horizon that occurs; taken as one value below all of them
ZeroTime == 0 - 2000000000

\* the collections the switch of bucket.lastTS knows
MonoCols == {"iftraffic", "icingachk"}

\* bucket.lastTS(i, inst, col): lt stays the zero time unless a row is read; an unknown
\* collection fails before any query
MonoLastTS(cl, ans) ==
    IF cl \notin MonoCols THEN [lt |-> ZeroTime, err |-> "err"]
    ELSE IF ans.kind = "err" THEN [lt |-> ZeroTime, err |-> "err"]
    ELSE IF ans.kind = "norow" THEN [lt |-> ZeroTime, err |-> Nil]
    ELSE [lt |-> ans.v, err |-> Nil]

\* a.downsample: "t, err := b.lastTS(a.db, inst, col)", an error is only logged, then
\* "fTs = t", which replaces the default now - b.from.rPeriod
MonoRangeStart(r) == r.lt

\* lastTS of the target and the start of the cursor that downsample takes from it
MonoLastTSApply ==
    /\ wPc = "mlts" /\ shOut = <<>>
    /\ LET r == MonoLastTS(shIn.col, shIn.ans) IN
       shOut' = <<r, MonoRangeStart(r)>>
    /\ UNCHANGED <<clock, confVars, bwVars, monVars, workVars, dsVars, gateUp, shIn, histVars, runVars>>

InitMonoLts ==
    /\ InitCommon
    /\ scen = NoScen /\ bwPoints = {} /\ watch = FALSE
    /\ AggrCnt = DefaultAggrCnt
    /\ col = "iftraffic" /\ cg = "light"
    /\ buckets \in Chains \cup ChainsDs
    /\ instances = <<>>
    /\ wPc = "mlts"
    /\ shIn \in LastTSInputs(buckets) /\ shOut = <<>>
    /\ RunStarted

SpecMonoLts == InitMonoLts /\ [][MonoLastTSApply]_vars

(* ---------------- Bandwidth job (Influx.StoreBwUsage) ---------------- *)
Hour == 60 * Minute
Day == 24 * Hour
\* the time between two calls of StoreBwUsage
BwDeltas == {1, 2 * Hour, 23 * Hour, Day}
\* the done-probe's query: fails, succeeds, or fails after the rows were read
BwProbeAnswers == {"err", "ok", "rowerr"}
\* the program: stores a point, finds nothing to store, or fails
BwExecAnswers == {"point", "nopoint", "err"}

\* variant of BwRangeStart: the range starts at the last midnight
BwRangeStartMidnight(at) == at - (at % Day)

\* fTS := now.Add(-24 * time.Hour), sent as fTS.Unix()
BwRangeStart(at) == Unix(at - Day)

\* IsBwUtilDone(inst) called at instant at: r is true when the query returns a row, a
\* bwutil point of the instance in [fTS, now)
IsBwUtilDone(points, at, ans) ==
    LET found == \E pt \in points : BwRangeStart(at) <= pt /\ pt < at IN
    IF ans = "err" THEN [r |-> FALSE, err |-> "err"]
    ELSE IF ans = "rowerr" THEN [r |-> found, err |-> "err"]
    ELSE [r |-> found, err |-> Nil]

\* the _time of the stored point: yesterday.stop of boundaries.yesterday(), the start of
\* the day of the query
YesterdayStop(at) == at - (at % Day)

\* StoreBwUsage(inst) is called
BwCall ==
    /\ wPc = "bw" /\ bwPc = "idle" /\ bwRuns < MaxRuns
    /\ \E d \in BwDeltas : clock' = clock + d
    /\ bwStart' = clock'
    /\ bwRuns' = bwRuns + 1
    /\ bwWrites' = 0
    /\ bwRet' = "none"
    /\ bwPc' = "probe"
    /\ UNCHANGED <<confVars, monVars, workVars, dsVars, fnVars, histVars, runVars, gateUp,
                   bwPoints, bwProbe, bwProd>>

\* present, err := i.IsBwUtilDone(inst): an error, or data present, ends the call
BwProbe ==
    /\ wPc = "bw" /\ bwPc = "probe"
    /\ \E ans \in BwProbeAnswers :
         LET r == IsBwUtilDone(bwPoints, clock, ans) IN
         /\ bwProbe' = r
         /\ IF r.err # Nil THEN bwRet' = "probe" /\ bwPc' = "idle"
            ELSE IF r.r THEN bwRet' = Nil /\ bwPc' = "idle"
            ELSE bwRet' = bwRet /\ bwPc' = "exec"
    /\ UNCHANGED <<clock, confVars, monVars, workVars, dsVars, fnVars, histVars, runVars, gateUp,
                   bwPoints, bwStart, bwWrites, bwRuns, bwProd>>

\* _, err = queryAPI.QueryRaw(..., q, ...): the one program of the job
BwExec ==
    /\ wPc = "bw" /\ bwPc = "exec"
    /\ \E lat \in {0, MaxLatency}, out \in BwExecAnswers :
         /\ clock' = clock + lat
         /\ bwWrites' = bwWrites + 1
         /\ IF out = "point"
            THEN /\ bwPoints' = bwPoints \cup {YesterdayStop(clock')}
                 /\ bwProd' = <<[run |-> bwRuns, start |-> bwStart,
                                 stamp |-> YesterdayStop(clock')]>>
            ELSE UNCHANGED <<bwPoints, bwProd>>
         /\ bwRet' = IF out = "err" THEN "exec" ELSE Nil
    /\ bwPc' = "idle"
    /\ UNCHANGED <<confVars, monVars, workVars, dsVars, fnVars, histVars, runVars, gateUp,
                   bwStart, bwProbe, bwRuns>>

\* StoreBwUsage called again and again for one instance, with or without a bwutil point
\* of the last midnight in the bucket
InitBw ==
    /\ InitCommon
    /\ scen = NoScen /\ watch = FALSE
    /\ bwPoints \in {{}, {0}}
    /\ AggrCnt = DefaultAggrCnt
    /\ col = "ifstats" /\ cg = "light" /\ buckets = TelegrafChain /\ instances = <<"sw1">>
    /\ wPc = "bw"
    /\ shIn = <<>> /\ shOut = <<>>
    /\ RunStarted

NextBw == BwCall \/ BwProbe \/ BwExec

SpecBw == InitBw /\ [][NextBw]_vars

(* ---------------- the chunk width, applied to drawn inputs ---------------- *)
\* cardinalities around the limits of the switch
ChunkCards == {0, 1, 50, 99, 100, 500, 999, 1000, 5000}
ChunkInputs ==
    {[ac |-> a, probe |-> pb, aInterv |-> iv] :
        a \in AggrCnts,
        pb \in {ErrAns} \cup Rows(ChunkCards) \cup RowErrs(ChunkCards),
        iv \in {Second, 8 * Minute}}

\* card, err := i.Cardinality(b.From, inst); the switch on card; c
ChunkApply ==
    /\ wPc = "chunk" /\ shOut = <<>>
    /\ LET crd == CardinalityOf(shIn.probe).c IN
       shOut' = <<[card |-> crd, c |-> ChunkWidth(shIn.ac, crd, shIn.aInterv)]>>
    /\ UNCHANGED <<clock, confVars, bwVars, monVars, workVars, dsVars, gateUp, shIn, histVars, runVars>>

InitChunk ==
    /\ InitCommon
    /\ scen = NoScen /\ bwPoints = {} /\ watch = FALSE
    /\ AggrCnt = DefaultAggrCnt
    /\ col = "iftraffic" /\ cg = "light" /\ buckets = TelegrafChain /\ instances = <<>>
    /\ wPc = "chunk"
    /\ shIn \in ChunkInputs /\ shOut = <<>>
    /\ RunStarted

SpecChunk == InitChunk /\ [][ChunkApply]_vars

(* ---------------- the program builder, applied to drawn inputs ---------------- *)
\* a step of a chain, a window, an instance, a collection and an organization
ProgramInputs(chain) ==
    {[tgt |-> i, win |-> w, inst |-> r, col |-> cl, org |-> o] :
        i \in {k \in DOMAIN chain : chain[k].From # 0},
        w \in {<<0 - 2 * Second - 1, 0 - 1>>, <<0 - 4 * Second, 0 - Second>>},
        r \in {"r1"}, cl \in KnownCols, o \in {Org, "other"}}

\* the program is built, in the state the call is in
ProgramApply ==
    /\ wPc = "prog" /\ Len(shOut) < 2
    /\ LET b == buckets[shIn.tgt] IN
       shOut' = Append(shOut,
                  [prog |-> Program(b, buckets[b.From], shIn.win[1], shIn.win[2],
                                    shIn.inst, shIn.col, shIn.org),
                   gate |-> DbHasResources, card |-> card, cycle |-> cycle, at |-> clock])
    /\ UNCHANGED <<clock, confVars, bwVars, monVars, workVars, dsVars, gateUp, shIn, histVars, runVars>>

\* between two builds: time passes, the cardinality and the cycle are others
ProgElapse ==
    /\ wPc = "prog" /\ clock = 0
    /\ clock' = clock + MaxLatency
    /\ card' \in CardVals
    /\ cycle' \in {cycle, cycle + 1}
    /\ UNCHANGED <<confVars, bwVars, monVars, fnVars, histVars, runVars, gateUp,
                   instances, wPc, firstRun, bi, ii, ts, polls, wErr,
                   dPc, now, ft, t, fTs, tTs, c, q, dErr, nExec, lastWin, dbLog>>

InitProg ==
    /\ InitCommon
    /\ scen = NoScen /\ bwPoints = {} /\ watch = FALSE
    /\ AggrCnt = DefaultAggrCnt
    /\ col = "" /\ cg = "light"
    /\ buckets \in {TelegrafChain, IcingaChain}
    /\ instances = <<>>
    /\ wPc = "prog"
    /\ shIn \in ProgramInputs(buckets) /\ shOut = <<>>
    /\ dsCollections = <<>> /\ rPc = "wait" /\ rIdx = 1 /\ rBuckets = buckets /\ workers = {}

NextProg == MonTick \/ ProgElapse \/ ProgramApply

SpecProg == InitProg /\ [][NextProg]_vars

\* the same with the scheduling of the walker's goroutine: a poll of the gate and a
\* QueryRaw call that can be taken are taken
SpecDsFair == InitDs /\ [][NextDs]_vars /\ WF_vars(DsGate) /\ WF_vars(DsExec)

InitFn ==
    /\ InitCommon
    /\ scen = NoScen /\ bwPoints = {} /\ watch = FALSE
    /\ AggrCnt = DefaultAggrCnt
    /\ col = "iftraffic" /\ cg = "light" /\ buckets = <<Bucket("H", 1, 1, TRUE, 0), Bucket("T1", 2, 3, FALSE, 1)>> /\ instances = <<>>
    /\ wPc = "fn"
    /\ shIn \in ShardInputs /\ shOut = <<>>
    /\ RunStarted

NextFn == ShardApply \/ FactorApply

SpecFn == InitFn /\ [][NextFn]_vars

(* ---------------- properties of Downsample ---------------- *)
\* a Downsample call has returned nil
ReturnedOk == wPc = "ds" /\ dPc = "ret" /\ dErr = Nil

\* C1 as stated: whenever Downsample returns without error, the stop of the last submitted
\* window (tgtLast when no window was submitted) is >= srcLast - aggInterval(target)
C1_FrontierAsStated ==
    ReturnedOk => (IF nExec > 0 THEN lastWin[2] ELSE t) >= ft - Tgt.AInterv

\* C1: whenever Downsample returns without error: if a window was submitted, the stop tTs of
\* the last one is >= srcLast - aggInterval(target) and the stop submitted, its whole seconds,
\* is less than one second short of that; if no window was submitted, tgtLast is
\* >= srcLast - aggInterval(target), or the call ended at the nothing-to-do guard with
\* tgtLast >= now - aggInterval(target)
C1_Frontier ==
    ReturnedOk =>
        IF nExec > 0
        THEN /\ tTs >= ft - Tgt.AInterv
             /\ lastWin[2] = Unix(tTs)
             /\ lastWin[2] > ft - Tgt.AInterv - Second
        ELSE t >= ft - Tgt.AInterv \/ t >= now - Tgt.AInterv

\* a call that returned nil after several windows, the last of them shrunk
C1_Witness ==
    ReturnedOk /\ nExec >= 2 /\ tTs < fTs

\* C2 as stated: every program handed to execute has windowStop <= now (the time read at
\* Downsample entry) and windowStop <= srcLast
C2_NoFutureAsStated ==
    (wPc = "ds" /\ nExec > 0) => (lastWin[2] <= now /\ lastWin[2] <= ft)

\* C2: every program handed to execute has windowStop < srcLast, and windowStop is before
\* the instant at which the program is handed over
C2_NoFuture ==
    (wPc = "ds" /\ nExec > 0) => (lastWin[2] < ft /\ lastWin[2] < clock)

\* a program was executed whose stop is the whole second of a source frontier read after now
C2_Witness ==
    wPc = "ds" /\ nExec > 0 /\ ft > now /\ lastWin[2] = Unix(ft - 1)

\* the windows of a call: the one executed last, and the one about to be executed
WindowsOrdered(lo) ==
    /\ (wPc = "ds" /\ nExec > 0) => (lastWin[1] >= lo /\ lastWin[1] < lastWin[2])
    /\ (wPc = "ds" /\ dPc = "exec") => (q.start >= lo /\ q.start < q.stop)
    /\ (wPc = "ds" /\ dPc = "exec" /\ nExec > 0) => q.start > lastWin[1]

\* C3 as stated: no window submitted by Downsample starts before the tgtLast read at entry,
\* every window has windowStart < windowStop, and the cursor strictly increases from one
\* submitted window to the next
C3_MonotoneAsStated == WindowsOrdered(t)

\* C3: no window submitted by Downsample starts before the whole second of the tgtLast read
\* at entry (less than a second before tgtLast), every window has windowStart < windowStop,
\* and the window start strictly increases from one submitted window to the next
C3_Monotone == WindowsOrdered(Unix(t))

\* a second window is about to be submitted in a call whose tgtLast is not a whole second
C3_Witness ==
    wPc = "ds" /\ dPc = "exec" /\ nExec > 0 /\ Unix(t) < t /\ lastWin[1] = Unix(t)

(* ---------------- properties of the gate ---------------- *)
\* C4: if DbHasResources is false for the whole duration of a Downsample call (gateUp, set
\* at entry and by every tick, is still false), the call has issued no QueryRaw and is not
\* about to; and the worker passes its own wait loop into Downsample only on a poll that
\* reads the gate true
C4_GateBlocks ==
    /\ []((wPc = "ds" /\ ~gateUp) => (nExec = 0 /\ dPc # "exec"))
    /\ [][(wPc = "wgate" /\ wPc' = "ds") => DbHasResources]_vars

\* a call whose gate has been false since entry is held in the wait loop after a 30 s sleep
C4_Witness ==
    wPc = "ds" /\ dPc = "gate" /\ ~gateUp /\ clock >= now + GateSleep /\ nExec = 0

\* C5: a walker that has issued a chunk and stands at the gate with the gate true issues its
\* next chunk unless the gate turns false first; every sleep of the wait is one 30 s sleep
\* taken at a poll that read the gate false, so the first poll that reads it true ends the wait
C5_GateResume ==
    /\ (wPc = "ds" /\ dPc = "gate" /\ nExec >= 1 /\ DbHasResources)
           ~> (dPc = "exec" \/ ~DbHasResources)
    /\ (wPc = "ds" /\ dPc = "exec") ~> (dPc # "exec")
    /\ [][(wPc = "ds" /\ dPc = "gate" /\ clock' # clock)
             => (~DbHasResources /\ clock' = clock + GateSleep)]_vars
    /\ [][(wPc = "ds" /\ dPc = "gate" /\ DbHasResources /\ <<clock, dPc>>' # <<clock, dPc>>)
             => dPc' = "exec"]_vars

\* a walker that issued one chunk is held: the monitor last saw 2 running tasks
C5_Witness ==
    /\ wPc = "ds" /\ dPc = "gate" /\ nExec = 1
    /\ ~DbHasResources /\ monTasks = Ans("row", 2) /\ clock >= now + GateSleep

\* C6: while the walker stands at the gate neither the cursor fTs nor the stop tTs nor the
\* number of submitted windows changes; the program built when the gate is read true has the
\* whole seconds of that fTs and tTs as its range and is the program executed; and at the
\* gate the cursor is tgtLast plus one chunk width per submitted window, so no chunk is skipped
C6_NoDrop ==
    /\ [][(wPc = "ds" /\ dPc = "gate" /\ dPc' = "gate")
             => (fTs' = fTs /\ tTs' = tTs /\ nExec' = nExec)]_vars
    /\ [][(wPc = "ds" /\ dPc = "gate" /\ dPc' = "exec")
             => (q'.start = Unix(fTs) /\ q'.stop = Unix(tTs))]_vars
    /\ [][(wPc = "ds" /\ dPc = "exec" /\ dPc' # "exec")
             => (nExec' = nExec + 1 /\ lastWin' = <<q.start, q.stop>>)]_vars
    /\ []((wPc = "ds" /\ dPc = "gate") => fTs = t + nExec * c)

\* a window was submitted after the walker slept at the gate, other windows before it
C6_Witness ==
    wPc = "ds" /\ nExec >= 2 /\ clock >= now + GateSleep /\ lastWin[1] = Unix(fTs - c)

(* ---------------- properties of the Resource Monitor ---------------- *)
\* C7: after every monitor tick the gate equals (the task query returned a value and that
\* value is <= 0) and (the memory query returned a value and that value is <= DsMemLimit),
\* and the memory query is not issued in a tick whose task check failed
C7_MonitorRule ==
    monTasks # NotRead =>
        LET tasksOk == monTasks.kind = "row" /\ monTasks.v <= 0
            memOk == monMem.kind = "row" /\ monMem.v <= DsMemLimit
        IN /\ DbHasResources = (tasksOk /\ memOk)
           /\ ~tasksOk => monMem = NotRead

\* a tick saw no running task and memory exactly at the limit, and opened the gate
C7_Witness ==
    monTasks = Ans("row", 0) /\ monMem = Ans("row", DsMemLimit) /\ DbHasResources

(* ---------------- properties of the chunk width ---------------- *)
\* the chunk width of the call, in target intervals, is what tbl gives for its cardinality
WidthIs(tbl) ==
    (wPc = "ds" /\ c # 0 /\ AggrCnt = DefaultAggrCnt /\ card \in DOMAIN tbl)
        => c = tbl[card] * Tgt.AInterv

\* C8 as stated: with aggrCnt = 8, for cardinality 0, 50, 500 and 5000 the chunk duration
\* is 8, 160, 80 and 8 times target.aggInterval
C8_ChunkWidthAsStated ==
    WidthIs((0 :> 8) @@ (50 :> 160) @@ (500 :> 80) @@ (5000 :> 8))

\* C8: with aggrCnt = 8, for cardinality 0, 50, 500 and 5000 the chunk duration is
\* 80, 160, 80 and 8 times target.aggInterval
C8_ChunkWidth ==
    WidthIs((0 :> 80) @@ (50 :> 160) @@ (500 :> 80) @@ (5000 :> 8))

\* a call with aggrCnt = 8 that read cardinality 0 and works with chunks of 80 intervals
C8_Witness ==
    /\ wPc = "ds" /\ dPc = "gate" /\ AggrCnt = DefaultAggrCnt
    /\ card = 0 /\ c = 80 * Tgt.AInterv

(* ---------------- properties of GetDsInstances ---------------- *)
InSeq(v, seq) == \E k \in 1..Len(seq) : seq[k] = v

\* the cardinality GetDsInstances works with for instance v: 0 when the probe failed
ProbedCard(v) == IF shIn.probe[v].kind \in {"row", "rowerr"} THEN shIn.probe[v].v ELSE 0

\* the groups of the result agree, for every enumerated instance, with the three tests
\* given: light iff card < CardMedium, medium iff CardMedium <= card < CardHevy, hevy iff isHevy
ShardedBy(isHevy(_, _, _)) ==
    (wPc = "fn" /\ shOut # <<>>) =>
        \A k \in 1..Len(shIn.list) :
            LET v == shIn.list[k]
                crd == ProbedCard(v)
                out == shOut[1]
            IN /\ InSeq(v, out["light"]) <=> crd < shIn.cm
               /\ InSeq(v, out["medium"]) <=> (shIn.cm <= crd /\ crd < shIn.ch)
               /\ InSeq(v, out["hevy"]) <=> isHevy(crd, shIn.cm, shIn.ch)
               /\ (shIn.cm = 50 /\ shIn.ch = 1000) =>
                     /\ crd = 10 => InSeq(v, out["light"])
                     /\ crd = 50 => InSeq(v, out["medium"])
                     /\ crd = 999 => InSeq(v, out["medium"])
                     /\ crd = 1000 => InSeq(v, out["hevy"])

HevyAsStated(crd, cm, ch) == crd >= ch
HevyAbove(crd, cm, ch) == crd >= ch /\ crd >= cm

\* C9 as stated: GetDsInstances assigns an instance to light iff card < CardMedium, to medium
\* iff CardMedium <= card < CardHevy, and to hevy iff card >= CardHevy; with 50 and 1000
\* this gives 10 -> light, 50 -> medium, 999 -> medium, 1000 -> hevy
C9_ShardingAsStated == ShardedBy(HevyAsStated)

\* C9: GetDsInstances assigns an instance to light iff card < CardMedium, to medium iff
\* CardMedium <= card < CardHevy, and to hevy iff card >= CardHevy and card >= CardMedium;
\* with 50 and 1000 this gives 10 -> light, 50 -> medium, 999 -> medium, 1000 -> hevy
C9_Sharding == ShardedBy(HevyAbove)

\* with the default thresholds, instances of cardinality 50 and 1000 were put in medium and hevy
C9_Witness ==
    /\ wPc = "fn" /\ shOut # <<>>
    /\ shIn.cm = 50 /\ shIn.ch = 1000
    /\ shIn.list = <<"r1", "r2">>
    /\ shIn.probe["r1"] = Ans("row", 50) /\ shIn.probe["r2"] = Ans("row", 1000)
    /\ shOut[1]["medium"] = <<"r1">> /\ shOut[1]["hevy"] = <<"r2">>

(* ---------------- properties of workOn ---------------- *)
\* C10: in every cycle, whenever the worker waits to call Downsample or is inside the call,
\* the target bucket is not the head tier and its source From is a bucket of the chain
C10_HeadSkip ==
    wPc \in {"wgate", "ds"} =>
        /\ bi \in 1..Len(buckets)
        /\ ~buckets[bi].First
        /\ buckets[bi].From \in 1..Len(buckets)

\* Downsample is running in a cycle after the first, in which the head tier was re-enumerated
C10_Witness ==
    wPc = "ds" /\ dPc = "srcTS" /\ cycle >= 2 /\ ~firstRun

\* the Downsample calls of a cycle that has started k of them over n instances: call j is
\* for the bucket after the head that many full rounds on, and for instance j of its round
CallsInOrder(k, n) ==
    [j \in 1..k |-> <<2 + ((j - 1) \div n), instances[((j - 1) % n) + 1]>>]

\* C11: within one cycle the Downsample calls started so far are exactly the non-head buckets in
\* chain order, each over all instances in the order of the list, so every call for bucket k
\* precedes the first call for bucket k+1; a call starts only when no call of the worker is in
\* progress, and a call is in progress only for the last one started
C11_TierOrder ==
    /\ [](/\ calls = CallsInOrder(Len(calls), Len(instances))
          /\ (dPc # "idle" => /\ wPc = "ds" /\ calls # <<>>
                               /\ calls[Len(calls)] = <<bi, instances[ii]>>))
    /\ [][Len(calls') > Len(calls) =>
            /\ dPc = "idle" /\ dPc' = "enter"
            /\ calls' = Append(calls, <<bi, instances[ii]>>)]_vars

\* the first call for the third bucket of a chain starts, after both instances were handled
\* for the second bucket
C11_Witness ==
    /\ Len(instances) = 2 /\ Len(calls) = 3 /\ calls[3][1] = 3 /\ dPc = "enter"
    /\ calls[1][1] = 2 /\ calls[2][1] = 2

\* C12: every step that ends a cycle, a cycle without any Downsample call included, starts
\* the next cycle (ts' is its start, read right after the sleep) at least 3 h after the
\* start ts of the cycle that ended
C12_CycleFloor ==
    [][cycle' = cycle + 1 => (ts' = clock' /\ ts' >= ts + MinCycle)]_vars

\* the second cycle enumerated no instance, made no call, and the third starts 3 h after it
C12_Witness ==
    /\ cycle = 3 /\ instances = <<>> /\ enumCycle = 2 /\ wPc = "bucket" /\ bi = 1
    /\ ts = clock /\ ts = 2 * MinCycle

\* C13: in the first cycle no enumeration has happened and the list is the one passed in;
\* in every later cycle, once the head bucket is passed, the list is the one enumerated in
\* that cycle
C13_FirstCycleAsStated ==
    /\ (cycle = 1 => enumCycle = 0)
    /\ (cycle \in 2..MaxCycles /\ bi > 1 => enumCycle = cycle /\ instances = enumList)

\* in app.go the second cycle, entered after the sleep to the 3 h floor, has passed the head
\* bucket without an enumeration and calls downsample for the list of the first cycle
C13_MonoWitness ==
    /\ cycle = 2 /\ firstRun /\ enumCycle = 0 /\ calls # <<>> /\ clock >= MinCycle

\* C14: when Downsample has returned an error, the step of workOn that follows sleeps 10 s
\* and goes on with the next instance of the bucket, or with the next bucket after the last
\* instance; the worker loop ends from no Downsample result; and at the end of a cycle every
\* non-head bucket was called for every instance, whatever the calls returned
C14_ErrorIsolation ==
    [][/\ (wPc = "ds" /\ dPc = "ret" /\ dErr # Nil /\ wPc' # "ds") =>
            /\ clock' = clock + 10 * Second
            /\ lastErr'
            /\ IF ii < Len(instances)
               THEN wPc' = "wgate" /\ ii' = ii + 1 /\ bi' = bi
               ELSE wPc' = "bucket" /\ bi' = bi + 1
       /\ (wPc = "ds" => wPc' \in {"ds", "wgate", "bucket"})
       /\ (cycle' = cycle + 1 => Len(calls) = (Len(buckets) - 1) * Len(instances))]_vars

\* the call for the first instance returned an error and the call for the second instance
\* of the same bucket is in progress
C14_Witness ==
    lastErr /\ wPc = "ds" /\ dPc = "srcTS" /\ ii = 2 /\ bi = 2 /\ Len(calls) = 2

C16_WatchdogAsStated ==
    [][(cycle = 1 /\ cycle' = 2 /\ clock - startTS < WatchdogSpan) => proc' = "fatal"]_vars

\* the first cycle has called Downsample for every bucket and instance within 10 s of the
\* start, and the worker is about to sleep to the 3 h floor
C16_Witness ==
    /\ cycle = 1 /\ wPc = "bucket" /\ bi > Len(buckets) /\ calls # <<>>
    /\ clock - startTS < WatchdogSpan /\ proc = "running"

(* ---------------- properties of collectionBuckets and of the start of Run ---------------- *)
\* a chain with the given names, aggregation intervals in minutes and retentions in hours,
\* the first bucket the head and every later one fed by the bucket before it
ChainIs(ch, names, mins, hours) ==
    /\ Len(ch) = Len(names)
    /\ \A k \in 1..Len(ch) :
         /\ ch[k].Name = names[k]
         /\ ch[k].AInterv = mins[k] * 60 * Second
         /\ ch[k].RPeriod = hours[k] * 3600 * Second
         /\ ch[k].First = (k = 1)
         /\ ch[k].From = k - 1
    /\ \A k \in 2..Len(ch) :
         ch[k].AInterv > ch[k - 1].AInterv /\ ch[k].RPeriod > ch[k - 1].RPeriod

\* Run has called collectionBuckets for the collection at rIdx
BucketsAsked ==
    rIdx <= Len(dsCollections) /\ (rPc = "instances" \/ fatalBy = "buckets")

\* C17: once collectionBuckets was called for iftraffic, ifstats, gengauge or gencounter it
\* has returned the chain telegraf/2d (2m, 48h, head) -> 7d (8m, 168h) -> 28d (30m, 672h) ->
\* all (180m, 17520h), and for icingachk the chain icinga2/one_week (1m, 168h, head) ->
\* four_weeks (30m, 672h) -> all (180m, 17520h), with one head and growing interval and retention
C17_StaticChainsAsStated ==
    BucketsAsked =>
        /\ dsCollections[rIdx] \in {"iftraffic", "ifstats", "gengauge", "gencounter"} =>
              /\ fatalBy # "buckets"
              /\ ChainIs(rBuckets,
                         <<"telegraf/2d", "telegraf/7d", "telegraf/28d", "telegraf/all">>,
                         <<2, 8, 30, 180>>, <<48, 168, 672, 17520>>)
        /\ dsCollections[rIdx] = "icingachk" =>
              /\ fatalBy # "buckets"
              /\ ChainIs(rBuckets,
                         <<"icinga2/one_week", "icinga2/four_weeks", "icinga2/all">>,
                         <<1, 30, 180>>, <<168, 672, 17520>>)

\* collectionBuckets was asked for ifstats and answered "unknown collection"
C17_Witness ==
    BucketsAsked /\ dsCollections[rIdx] = "ifstats" /\ fatalBy = "buckets" /\ rBuckets = <<>>

C19_NoProgramAsStated ==
    (col \notin KnownCols /\ dPc = "ret") => (dErr = "noprog" /\ nExec = 0)

\* C19: a Downsample call for a collection that matches no case of the program switch
\* returns the error of the source-frontier query LastTS(b.From, inst, col) ("unknown
\* collection"), with no target-frontier query, no cardinality probe, no program built and
\* none executed; the default arm of the program switch is taken in no call
C19_NoProgram ==
    /\ dErr # "noprog"
    /\ col \notin KnownCols =>
          /\ dPc \in {"idle", "enter", "srcTS", "ret"}
          /\ nExec = 0 /\ ~q.found
          /\ (dPc = "ret" => dErr = "srcTS")

\* the call for the unknown collection has returned the source-frontier error
C19_Witness ==
    col = "bogus" /\ wPc = "ds" /\ dPc = "ret" /\ dErr = "srcTS" /\ nExec = 0

(* ---------------- properties of a failed cardinality probe ---------------- *)
\* C20: an instance whose cardinality query failed is in the group hevy of the result of
\* GetDsInstances, and Downsample does AggrCnt aggregations at once for it (multiplier 1)
C20_ProbeErrorAsStated ==
    (wPc = "fn" /\ Len(shOut) = 2) =>
        \A k \in 1..Len(shIn.list) :
            LET v == shIn.list[k] IN
            shIn.probe[v].kind \in {"err", "rowerr"} =>
                /\ InSeq(v, shOut[1]["hevy"])
                /\ shOut[2][v] = AggrCnt

\* the probe of r1 failed without a row; r1 is in the group light and gets 10 * AggrCnt
C20_Witness ==
    /\ wPc = "fn" /\ Len(shOut) = 2
    /\ shIn.list = <<"r1">> /\ shIn.probe["r1"] = ErrAns
    /\ shOut[1]["light"] = <<"r1">> /\ shOut[1]["hevy"] = <<>>
    /\ shOut[2]["r1"] = 10 * AggrCnt

(* ---------------- scenarios ---------------- *)
\* Downsample is at work on the target of scenario id
InScen(id) == scen.on /\ scen.id = id /\ wPc = "ds" /\ bi = scen.tgt

\* C21 as stated: in scenario S1 a call that returns ok has submitted exactly 2 programs,
\* the chunk width is 640 m and the last window stops before T
C21_ScenarioS1AsStated ==
    (InScen("S1") /\ ReturnedOk) =>
        (nExec = 2 /\ c = 640 * Minute /\ lastWin[2] < scen.T)

\* C21: in scenario S1 the chunk width is 80 * 8 m = 640 m and a call that returns ok has
\* submitted exactly 3 programs: [T - 1600 m, T - 960 m) and [T - 960 m, T - 320 m) of
\* full width, and a third from T - 320 m that is shrunk to stop at T - 8 m, before T
C21_ScenarioS1 ==
    InScen("S1") =>
        LET T == scen.T
            Iv == 8 * Minute
        IN /\ nExec <= 3
           /\ (dPc \in {"gate", "exec"} \/ nExec > 0) => c = 640 * Minute
           /\ nExec = 1 => lastWin = <<Unix(T - 200 * Iv), Unix(T - 120 * Iv)>>
           /\ nExec = 2 => lastWin = <<Unix(T - 120 * Iv), Unix(T - 40 * Iv)>>
           /\ nExec = 3 => (lastWin = <<Unix(T - 40 * Iv), Unix(T - Iv)>> /\ lastWin[2] < T)
           /\ ReturnedOk => nExec = 3

\* scenario S1 with a T that is not a whole second: the call returned ok after 3 programs
C21_Witness ==
    InScen("S1") /\ ReturnedOk /\ nExec = 3 /\ Unix(scen.T) < scen.T

(* ---------------- LastTS ---------------- *)
\* C22: LastTS(b, inst, col) of a known collection returns now - b.RPeriod without error
\* when the query succeeds with no row, and the time of the last row when there is one;
\* for an unknown collection it returns an error
C22_LastTSDefault ==
    (wPc = "lts" /\ shOut # <<>>) =>
        LET r == shOut[1]
            b == buckets[shIn.b]
        IN /\ (shIn.col \in KnownCols /\ shIn.ans.kind = "norow") =>
                 (r.err = Nil /\ r.lt = shIn.at - b.RPeriod)
           /\ (shIn.col \in KnownCols /\ shIn.ans.kind = "row") =>
                 (r.err = Nil /\ r.lt = shIn.ans.v)
           /\ shIn.col \notin KnownCols => r.err # Nil

\* LastTS answered for a target whose source has a shorter retention, the query having
\* succeeded without a row
C22_Witness ==
    /\ wPc = "lts" /\ shOut # <<>>
    /\ shIn.col = "gengauge" /\ shIn.ans.kind = "norow"
    /\ buckets[shIn.b].From # 0
    /\ buckets[buckets[shIn.b].From].RPeriod < buckets[shIn.b].RPeriod
    /\ shOut[1].lt = shIn.at - buckets[shIn.b].RPeriod

(* ---------------- bandwidth job ---------------- *)
\* a call of StoreBwUsage has returned
BwReturned == wPc = "bw" /\ bwPc = "idle" /\ bwRuns > 0

\* a later call than the one that stored the latest point has returned, its probe
\* having answered without error
BwRerunReturned == BwReturned /\ bwProd # <<>> /\ bwProd[1].run < bwRuns /\ bwProbe.err = Nil

\* C23 as stated: a call executes exactly one program when the probe says false and none
\* when it says true or fails, and a call made within 24 h after a call that stored a
\* bwutil point executes none
C23_BwGuardAsStated ==
    /\ BwReturned => bwWrites = (IF bwProbe.err = Nil /\ ~bwProbe.r THEN 1 ELSE 0)
    /\ (BwRerunReturned /\ bwStart - bwProd[1].start <= Day) => bwWrites = 0

\* C23: a call executes exactly one program when the probe says false and none when it
\* says true or fails (the call then returns the probe's error); a later call executes
\* none as long as the point, stamped with the midnight before the program ran, is not
\* older than 24 h (in whole seconds) at the time of the call, and executes one after
\* that, within 24 h of the earlier call or not
C23_BwGuard ==
    /\ BwReturned => bwWrites = (IF bwProbe.err = Nil /\ ~bwProbe.r THEN 1 ELSE 0)
    /\ (BwReturned /\ bwProbe.err # Nil) => bwRet = "probe"
    /\ BwRerunReturned =>
         (bwWrites = 0 <=> bwStart < bwProd[1].stamp + Day + Second)

\* a call made 2 h after a call that stored a point, on the next day: one program
C23_Witness ==
    /\ BwRerunReturned
    /\ bwStart - bwProd[1].start = 2 * Hour
    /\ bwStart >= bwProd[1].stamp + Day + Second
    /\ bwWrites = 1

(* ---------------- the programs ---------------- *)
\* what a write does: <<aggregation function, on a derivative, field suffix, aggregate set>>
WrShape(x) == <<x.w.fn, x.w.deriv, x.w.suffix, x.w.set>>
WrShapes(pr) == [k \in DOMAIN pr.writes |-> WrShape(pr.writes[k])]
\* the field filters of the streams written
WrFields(pr) == [k \in DOMAIN pr.writes |-> pr.writes[k].w.fields]
\* the aggregate label of the rows a write stores: the one it sets, else the one selected
WrLabel(x) == IF x.w.set # "" THEN x.w.set ELSE x.w.sel
\* the programs built for a step of the chain whose source is the head tier, or is not
BuiltFrom(head) ==
    {shOut[k].prog : k \in {j \in DOMAIN shOut : wPc = "prog" /\ shOut[j].prog.srcFirst = head}}

\* C24: a program whose source is the head tier has exactly these writes, each setting the
\* aggregate tag and writing to the target bucket under the configured organization:
\* ifstats and iftraffic last of the counters, max and min of their derivative with
\* suffix Max and Min, max of the status fields; gengauge mean, max (Max), min (Min);
\* gencounter last, max (Max) and min (Min) of the derivative; icingachk mean, min, max of
\* value and last of crit|min|max|warn|unit
C24_HeadRecipe ==
    \A pr \in BuiltFrom(TRUE) :
        /\ \A k \in DOMAIN pr.writes :
              /\ pr.writes[k].w.set # "" /\ pr.writes[k].w.sel = ""
              /\ pr.writes[k].org = shIn.org
              /\ pr.writes[k].bucket = buckets[shIn.tgt].Name
        /\ pr.col \in {"ifstats", "iftraffic"} =>
              /\ WrShapes(pr) = <<(<<"last", FALSE, "", "last">>), (<<"max", TRUE, "Max", "max">>),
                                  (<<"min", TRUE, "Min", "min">>), (<<"max", FALSE, "", "max">>)>>
              /\ WrFields(pr)[1] = WrFields(pr)[2] /\ WrFields(pr)[2] = WrFields(pr)[3]
              /\ WrFields(pr)[4] # WrFields(pr)[1]
        /\ pr.col = "gengauge" =>
              WrShapes(pr) = <<(<<"mean", FALSE, "", "mean">>), (<<"max", FALSE, "Max", "max">>),
                               (<<"min", FALSE, "Min", "min">>)>>
        /\ pr.col = "gencounter" =>
              WrShapes(pr) = <<(<<"last", FALSE, "", "last">>), (<<"max", TRUE, "Max", "max">>),
                               (<<"min", TRUE, "Min", "min">>)>>
        /\ pr.col = "icingachk" =>
              /\ WrShapes(pr) = <<(<<"mean", FALSE, "", "mean">>), (<<"min", FALSE, "", "min">>),
                                  (<<"max", FALSE, "", "max">>), (<<"last", FALSE, "", "last">>)>>
              /\ WrFields(pr) = <<"^value$", "^value$", "^value$", "^(crit|min|max|warn|unit)$">>

\* the head program of icingachk (scenario S4) is built: 4 writes
C24_Witness ==
    \E pr \in BuiltFrom(TRUE) : pr.col = "icingachk" /\ Len(pr.writes) = 4

\* C25: every write of a program whose source is not the head tier selects the rows of one
\* stored aggregate label, re-aggregates them with the function of that name, takes no
\* derivative, and stores rows of that same label; the non-head program of iftraffic has
\* exactly three writes, for max, min and last
C25_NonHeadRelabel ==
    \A pr \in BuiltFrom(FALSE) :
        /\ Len(pr.writes) > 0
        /\ \A k \in DOMAIN pr.writes :
              /\ pr.writes[k].w.sel \in {"max", "min", "last", "mean"}
              /\ pr.writes[k].w.fn = pr.writes[k].w.sel
              /\ ~pr.writes[k].w.deriv
              /\ WrLabel(pr.writes[k]) = pr.writes[k].w.sel
        /\ pr.col = "iftraffic" =>
              [k \in DOMAIN pr.writes |-> pr.writes[k].w.sel] = <<"max", "min", "last">>

\* the program of iftraffic for telegraf/7d -> telegraf/28d (scenario S2) is built
C25_Witness ==
    \E pr \in BuiltFrom(FALSE) :
        pr.col = "iftraffic" /\ pr.src = "telegraf/7d" /\ Len(pr.writes) = 3

C27_ChunkMultiplier ==
    (wPc = "chunk" /\ shOut # <<>>) =>
        LET crd == shOut[1].card
            m == IF 0 < crd /\ crd < 100 THEN 20
                 ELSE IF crd = 0 \/ (100 <= crd /\ crd < 1000) THEN 10
                 ELSE 1
        IN /\ crd >= 0
           /\ shOut[1].c = m * shIn.ac * shIn.aInterv
           /\ shIn.probe.kind = "err" => (crd = 0 /\ shOut[1].c = 10 * shIn.ac * shIn.aInterv)

\* the width computed after a failed probe, with AggrCnt = 8: 80 intervals
C27_Witness ==
    /\ wPc = "chunk" /\ shOut # <<>>
    /\ shIn.probe.kind = "err" /\ shIn.ac = DefaultAggrCnt
    /\ shOut[1].c = 80 * shIn.aInterv

(* ---------------- the DB calls of one Downsample call ---------------- *)
\* the positions of the calls of one kind in the history of this Downsample call
LogOf(name) == {k \in DOMAIN dbLog : dbLog[k].call = name}
FailedOf(name) == {k \in LogOf(name) : ~dbLog[k].ok}

\* C28: when tgtLast + b.AInterv >= now, Downsample returns ok with no cardinality probe
\* and no program executed; when tgtLast >= srcLast - b.AInterv, it executes no program
\* and returns ok
C28_NothingToDo ==
    (wPc = "ds" /\ LogOf("tgtTS") # {}) =>
        /\ t + Tgt.AInterv >= now =>
              /\ dPc = "ret" /\ dErr = Nil
              /\ LogOf("card") = {} /\ LogOf("exec") = {} /\ nExec = 0
        /\ t >= ft - Tgt.AInterv =>
              /\ LogOf("exec") = {} /\ nExec = 0
              /\ dPc \in {"card", "ret"}
              /\ dPc = "ret" => dErr = Nil

\* the guard has ended a call after the two frontier queries
C28_Witness ==
    /\ wPc = "ds" /\ dPc = "ret" /\ dErr = Nil
    /\ t + Tgt.AInterv >= now
    /\ Len(dbLog) = 2 /\ LogOf("tgtTS") = {2}

\* C29: a failed LastTS of the source bucket ends the call with an error, no other DB call
\* having been made; a failed LastTS of the target bucket does not: the call goes on from
\* the time LastTS returned, to the guard and the cardinality probe, and the first window
\* starts at that time
C29_FrontierErrors ==
    wPc = "ds" =>
        /\ FailedOf("srcTS") # {} => (dPc = "ret" /\ dErr = "srcTS" /\ Len(dbLog) = 1)
        /\ FailedOf("tgtTS") # {} =>
              /\ dErr \in {Nil, "exec"}
              /\ t = dbLog[2].val[1]
              /\ (dPc = "ret" /\ LogOf("card") = {}) => t + Tgt.AInterv >= now
              /\ LogOf("exec") # {} =>
                    \A k \in LogOf("exec") :
                        (\A j \in LogOf("exec") : k <= j) => dbLog[k].val[1] = Unix(t)

\* a call whose target-frontier query failed has executed a program
C29_Witness ==
    /\ wPc = "ds" /\ FailedOf("tgtTS") # {}
    /\ LogOf("exec") # {} /\ dPc = "ret" /\ dErr = Nil

\* C30: a failed QueryRaw is the last DB call of its Downsample call, which then returns
\* the error; the windows submitted in one call come in increasing order, each starting
\* after the start and not before the stop of the ones before it
C30_ExecErrorStops ==
    wPc = "ds" =>
        /\ \A k \in FailedOf("exec") : k = Len(dbLog) /\ dPc = "ret" /\ dErr = "exec"
        /\ \A j, k \in LogOf("exec") :
              j < k => (dbLog[j].val[1] < dbLog[k].val[1] /\ dbLog[j].val[2] <= dbLog[k].val[1])
        /\ Cardinality(LogOf("exec")) = nExec

\* a call has failed at its third program
C30_Witness ==
    /\ wPc = "ds" /\ dPc = "ret" /\ dErr = "exec"
    /\ Cardinality(LogOf("exec")) = 3 /\ FailedOf("exec") = {Len(dbLog)}

(* ---------------- the sequence of windows of one call ---------------- *)
IsExec(e) == e.call = "exec"
\* the windows submitted so far by this Downsample call, in the order of submission
Windows == [k \in DOMAIN SelectSeq(dbLog, IsExec) |-> SelectSeq(dbLog, IsExec)[k].val]

\* the k-th window, k counted from 0, starts at first + k * c; every window but the last
\* has width c; a narrower one has a width that is a positive multiple of b.AInterv, is
\* submitted only when tgtLast + (k + 1) * c >= srcLast, and is the last of the call
WindowsShaped(first) ==
    (wPc = "ds" /\ Windows # <<>>) =>
        \A k \in DOMAIN Windows :
            LET w == Windows[k]
                width == w[2] - w[1]
            IN /\ w[1] = first + (k - 1) * c
               /\ 0 < width /\ width <= c
               /\ k < Len(Windows) => width = c
               /\ width < c =>
                     /\ width % Tgt.AInterv = 0
                     /\ t + k * c >= ft
                     /\ dPc = "ret"

\* C31 as stated: the k-th window submitted starts at tgtLast + k * c, every window except
\* possibly the last has width c, and a shrunk window is the last of its call
C31_ChunkShapeAsStated == WindowsShaped(t)

\* C31: the k-th window submitted starts at the whole second of tgtLast plus k * c (c is a
\* whole number of seconds), every window except possibly the last has width c, so the
\* windows are contiguous; a shrunk window has a width that is a positive multiple of
\* b.AInterv below c, occurs only when tgtLast + (k + 1) * c >= srcLast, and ends the loop
C31_ChunkShape == WindowsShaped(Unix(t))

\* a call whose tgtLast is not a whole second has ended after a full window and one
\* shrunk by more than one interval
C31_Witness ==
    /\ wPc = "ds" /\ dPc = "ret" /\ Len(Windows) = 2 /\ Unix(t) < t
    /\ Windows[1][2] - Windows[1][1] = c
    /\ Windows[2][2] - Windows[2][1] < c - Tgt.AInterv

(* ---------------- termination of Downsample ---------------- *)
\* ceil(x / d) for d > 0, and 0 when x <= 0
CeilDiv(x, d) == IF x <= 0 THEN 0 ELSE (x + d - 1) \div d
\* the walker stands at the gate, the gate is false and no poll is left to it
HeldAtGate == wPc = "ds" /\ dPc = "gate" /\ ~DbHasResources /\ polls = MaxPolls

\* C32: c and b.AInterv are positive; a Downsample call submits at most
\* ceil((srcLast - b.AInterv - tgtLast) / c) programs, exactly that many when it returns
\* ok from the loop; and a call that is not held at a closed gate returns or comes to be
\* held at a closed gate
C32_Terminates ==
    /\ [](AggrCnt > 0 /\ (wPc = "ds" => Tgt.AInterv > 0))
    /\ []((wPc = "ds" /\ dPc \in {"gate", "exec"}) => c > 0)
    /\ []((wPc = "ds" /\ c > 0) =>
            /\ nExec <= CeilDiv(ft - Tgt.AInterv - t, c)
            /\ dPc = "exec" => nExec < CeilDiv(ft - Tgt.AInterv - t, c)
            /\ (dPc = "ret" /\ dErr = Nil) => nExec = CeilDiv(ft - Tgt.AInterv - t, c))
    /\ (wPc = "ds" /\ dPc # "ret" /\ ~HeldAtGate) ~> (dPc = "ret" \/ HeldAtGate)

\* a call has returned ok after a sleep at the gate and more than two programs
C32_Witness ==
    /\ wPc = "ds" /\ dPc = "ret" /\ dErr = Nil
    /\ nExec > 2 /\ nExec = CeilDiv(ft - Tgt.AInterv - t, c)
    /\ clock >= now + GateSleep

(* ---------------- the gate at the time of QueryRaw ---------------- *)
\* C33 as stated: in every state in which Downsample issues QueryRaw, DbHasResources is
\* true
C33_GateAtExecAsStated ==
    (wPc = "ds" /\ dPc = "exec") => DbHasResources

\* the walker has passed its gate check and built the program, a tick of the monitor has
\* then read 2 running tasks and set the gate false, and QueryRaw is the walker's next step
C33_Witness ==
    /\ wPc = "ds" /\ dPc = "exec" /\ q.found
    /\ ~DbHasResources /\ monTasks = Ans("row", 2)


(* ---------------- properties of the end of Run ---------------- *)
\* C34: once Run waits and the workOn of some worker has returned, the process does not end
\* otherwise than by the fatal log of Run that follows wg.Wait()
C34_FirstReturnEndsAsStated ==
    (rPc = "wait" /\ ended # {} /\ proc # "running") => (proc = "fatal" /\ fatalBy = "wait")

\* two workers returned one after the other before Run ran on from wg.Wait(): the second
\* wg.Done() found the counter at 0
C34_Witness ==
    /\ rPc = "wait" /\ proc = "panic" /\ fatalBy = "none" /\ wg = 0
    /\ Cardinality(ended) = 2 /\ clock - startTS >= MinCycle

\* the instances of a list
ListSet(l) == {l[j] : j \in 1..Len(l)}

C36_Partition ==
    (wPc = "fn" /\ Len(shOut) >= 1) =>
        LET r == shOut[1] IN
        /\ DOMAIN r = Groups
        /\ \A v \in ListSet(shIn.list) :
              Cardinality({g \in Groups : v \in ListSet(r[g])}) = 1
        /\ \A g \in Groups, h \in Groups : g # h => ListSet(r[g]) \cap ListSet(r[h]) = {}
        /\ UNION {ListSet(r[g]) : g \in Groups} = ListSet(shIn.list)
        /\ Len(r["light"]) + Len(r["medium"]) + Len(r["hevy"]) = Len(shIn.list)

\* two instances were enumerated, the probe of r1 failed and that of r2 read 999 with the
\* thresholds 1000 and 50: r1 and r2 are both in light, and medium and hevy are empty
C36_Witness ==
    /\ wPc = "fn" /\ Len(shOut) >= 1
    /\ shIn.list = <<"r1", "r2">> /\ shIn.probe["r1"] = ErrAns /\ shIn.probe["r2"] = Ans("row", 999)
    /\ shIn.cm = 1000 /\ shIn.ch = 50
    /\ shOut[1]["light"] = <<"r1", "r2">> /\ shOut[1]["medium"] = <<>> /\ shOut[1]["hevy"] = <<>>

(* ---------------- properties of the gate before the first poll ---------------- *)
\* C37: as long as the monitor has completed no poll the gate is true, as NewInflux set it,
\* and no wait at a gate has happened; a walker that reaches its gate then goes on to the
\* execute (or returns for want of a program) without a sleep
C37_InitialGate ==
    /\ [](monTasks = NotRead => (DbHasResources /\ polls = 0))
    /\ [][(monTasks' = NotRead /\ wPc = "ds" /\ dPc = "gate") =>
            (dPc' \in {"exec", "ret"} /\ clock' = clock)]_vars

\* a program was submitted less than 10 s after the start, before the first tick of the
\* monitor, which has read nothing yet
C37_Witness ==
    /\ monTasks = NotRead /\ monMem = NotRead /\ DbHasResources
    /\ wPc = "ds" /\ nExec > 0 /\ lastWin[2] > lastWin[1]
    /\ clock - startTS < 10 * Second

(* ---------------- properties of workOn of the monolithic App ---------------- *)
\* C38: in workOn of app.go the first cycle starts with the worker, at time 0, and every
\* later cycle at least 3 h after the cycle before it, so cycle k starts no earlier than
\* (k - 1) * 3 h; and the first-run flag is cleared in every cycle after the first
C38_MonoFloorAsStated ==
    /\ clock >= (cycle - 1) * MinCycle
    /\ (cycle >= 2 => ~firstRun)

\* the first cycle was short and the second started at 3 h with the flag still set and ts
\* still 0; at the end of the second cycle the elapsed time was measured from ts, no sleep
\* followed, and the third cycle starts less than 3 h after the second
C38_Witness ==
    /\ cycle = 3 /\ wPc = "bucket" /\ bi = 1 /\ calls = <<>>
    /\ clock >= MinCycle /\ clock < 2 * MinCycle
    /\ ts = clock /\ ~firstRun

\* C39: bucket.lastTS of app.go, for a collection it knows and a query that succeeds
\* without a row, returns now - b.rPeriod without error, and the cursor that downsample takes
\* from the result for the target does not start before that horizon
C39_MonoDefaultAsStated ==
    (wPc = "mlts" /\ shOut # <<>> /\ shIn.col \in MonoCols /\ shIn.ans.kind = "norow") =>
        /\ shOut[1].err = Nil
        /\ shOut[1].lt = shIn.at - buckets[shIn.b].RPeriod
        /\ shOut[2] >= shIn.at - buckets[shIn.b].RPeriod

\* the query for a target without data succeeded with no row: lastTS returned the zero time
\* without error, and the cursor starts there, before the retention horizon
C39_Witness ==
    /\ wPc = "mlts" /\ shOut # <<>>
    /\ shIn.col = "iftraffic" /\ shIn.ans.kind = "norow" /\ buckets[shIn.b].From # 0
    /\ shOut[1] = [lt |-> ZeroTime, err |-> Nil]
    /\ shOut[2] = ZeroTime /\ shOut[2] < shIn.at - buckets[shIn.b].RPeriod

====
